---- MODULE Spec2Model ----
(***************************************************************************)
(* Lead finder 6000: the run orchestrator of server.js (POST /api/run,     *)
(* /api/cancel, /api/stream, /api/dedupe/clear), its worker pool, the      *)
(* cross-run dedupe ledger SENT and the observers of a job.                *)
(*                                                                         *)
(* Node runs the server on one thread: a step of the model is the code a   *)
(* task runs between two suspension points (an await on the Business       *)
(* Source, the crawler, the mail sender, the throttle sleep, the CSV       *)
(* writer, or the await of a pool task), or one request handler.           *)
(***************************************************************************)
EXTENDS Integers, Sequences, FiniteSets, TLC

(* ------------------------------ bounds -------------------------------- *)
MaxItems      == 2   \* businesses on one page of the Business Source
MaxSrcPages   == 1   \* non-empty pages the Business Source hands out in all
CapItems      == 3   \* page length of the scenario with more tasks than workers
TwoPassPages  == 2   \* non-empty pages of the scenarios with two pages
FewItems      == 1   \* page length of the scenarios with two jobs or observers
MaxAreas      == 1   \* areas the city list of a request expands to
MaxHeartbeats == 1   \* heartbeat ticks that fire during the process
MaxObservers  == 2   \* /api/stream connections opened during the process
MaxCap        == 3   \* largest cap a request asks for

(* ------------------------- program constants -------------------------- *)
CONCURRENCY      == 2   \* LEAD_CONCURRENCY of the process (6 when unset)
DEFAULT_SEND_CAP == 2   \* maxSend: DEFAULT_SEND_CAP of the process (200 when unset)
NumPhrasings     == 3   \* cityQueries returns three phrasings per area

JobIds    == {1, 2}
Observers == 1..MaxObservers

(* Email addresses as the crawler may hand them over, and websites as the  *)
(* Business Source may; "" is a business without a website.                *)
Emails    == {"a@x.com", "A@x.com", "b@y.com", "c@z.com"}
NoEmail   == "null"
Websites  == {"x.com", "y.com", "z.com"}
NoWebsite == ""
Businesses == Websites \cup {NoWebsite}

toLowerCase(e) == IF e = "A@x.com" THEN "a@x.com" ELSE e
LowerEmails == {toLowerCase(e) : e \in Emails}

(* What findEmailOnSite may resolve a website to: one of the addresses its *)
(* pages show, or nothing.  Two websites may show the same address.        *)
CrawlerFinds(website) ==
  {NoEmail} \cup (CASE website = "x.com" -> {"a@x.com", "A@x.com"}
                   []  website = "y.com" -> {"b@y.com", "a@x.com"}
                   []  OTHER             -> {"c@z.com"})

(* The contents sent-emails.json may have when the process starts. *)
SentFiles == {{"a@x.com"}}

PagesUpTo(len) == UNION {[1..n -> Businesses] : n \in 1..len}

(* The cap field of a request body; 0 stands for a missing or falsy cap. *)
Caps == -1..MaxCap

Min(a, b) == IF a <= b THEN a ELSE b

Slice(arr, n) == SubSeq(arr, 1, Min(Len(arr), n))

(* The city lists of a request after split, trim and filter: no city, a    *)
(* city that is in no table, and a metro of the presets.                   *)
CityLists == {<<>>, <<"Springfield">>, <<"Boston">>}

(* expandCity: the state and metro tables (of which the model keeps one    *)
(* metro), else the generic compass fanout.                                *)
expandCity(city) ==
  IF city = "" THEN <<>>
  ELSE IF city \in {"Boston", "boston"}
  THEN <<"Boston", "Cambridge", "Somerville", "Brookline", "Quincy">>
  ELSE <<city, "North " \o city, "South " \o city, "East " \o city, "West " \o city,
         city \o " Downtown", city \o " Suburbs">>

RECURSIVE flatMap(_)
flatMap(rawCities) ==
  IF rawCities = <<>> THEN <<>>
  ELSE expandCity(Head(rawCities)) \o flatMap(Tail(rawCities))

(* areas = rawCities.flatMap(expandCity), rawCities being the city list or *)
(* ['United States'] when it is empty.                                     *)
Areas(cityList) ==
  flatMap(IF cityList # <<>> THEN cityList ELSE <<"United States">>)

(* ------------------------- enrich.js: strings ------------------------- *)
(* A string of enrich.js is a sequence of tokens; its characters are those *)
(* of its tokens in order.  The tokens are chosen so that what the code    *)
(* asks of a string (split at '@', endsWith, the role and webmail regexes, *)
(* length, toLowerCase) is decided on the tokens.                          *)
MaxCandidates == 3   \* candidates handed to bestEmailForDomain
MaxCalls      == 2   \* findEmailOnSite calls of the process

LongLocal == "averyveryveryverylonglocalpart"

CharLen(tok) ==
  CASE tok \in {"@", ".", "A"}                 -> 1
    [] tok \in {"com", "org"}                  -> 3
    [] tok \in {"info", "Info", "jane", "acme", "Acme", "fast", "mail"} -> 4
    [] tok \in {"gmail", "other"}              -> 5
    [] tok = LongLocal                         -> 30

RECURSIVE length(_)
length(str) == IF str = <<>> THEN 0 ELSE CharLen(Head(str)) + length(Tail(str))

lowerTok(tok) ==
  CASE tok = "Info" -> "info" [] tok = "Acme" -> "acme" [] tok = "A" -> "a"
    [] OTHER -> tok

lower(str) == [i \in DOMAIN str |-> lowerTok(str[i])]

endsWith(str, suffix) ==
  /\ Len(suffix) <= Len(str)
  /\ SubSeq(str, Len(str) - Len(suffix) + 1, Len(str)) = suffix

HasAt(e) == \E i \in DOMAIN e : e[i] = "@"

(* e.split('@')[1]: what lies between the first '@' and the next one. *)
DomainOf(e) ==
  LET at   == CHOOSE i \in DOMAIN e : e[i] = "@" /\ \A k \in 1..(i - 1) : e[k] # "@"
      rest == SubSeq(e, at + 1, Len(e))
      stop == IF HasAt(rest)
              THEN (CHOOSE i \in DOMAIN rest : rest[i] = "@" /\ \A k \in 1..(i - 1) : rest[k] # "@") - 1
              ELSE Len(rest)
  IN  SubSeq(rest, 1, stop)

InfoAcme   == <<"info", "@", "acme", ".", "com">>
JaneAcme   == <<"jane", "@", "acme", ".", "com">>
JaneSub    == <<"jane", "@", "mail", ".", "acme", ".", "com">>
JaneGmail  == <<"jane", "@", "gmail", ".", "com">>
InfoGmail  == <<"info", "@", "gmail", ".", "com">>
JaneFastgmail == <<"jane", "@", "fast", "gmail", ".", "com">>
JaneOther  == <<"jane", "@", "other", ".", "org">>
LongOther  == <<"jane", ".", LongLocal, "@", "other", ".", "org">>
InfoUpper  == <<"Info", "@", "acme", ".", "com">>
JunkA      == <<"A">>

(* Addresses the extractors may hand over, and what a data-cfemail span    *)
(* may decode to.                                                          *)
Addresses == {InfoAcme, JaneAcme, JaneSub, JaneGmail, InfoGmail,
              JaneFastgmail, JaneOther, LongOther}
Hosts == {<<"acme", ".", "com">>, <<"other", ".", "org">>}

RoleLocals == {"info", "contact", "hello", "office", "support", "sales",
               "bookings", "admin", "team", "service", "hi"}
Webmails == {<<"gmail", ".", "com">>, <<"yahoo", ".", "com">>, <<"hotmail", ".", "com">>,
             <<"outlook", ".", "com">>, <<"aol", ".", "com">>}

(* Values a call hands back: an address, null, or a thrown error. *)
Ret(e)  == [v |-> "email", s |-> e]
RetNull == [v |-> "null", s |-> <<>>]
Thrown  == [v |-> "threw", s |-> <<>>]

(* A score without the webmail penalty. *)
scoreNoWebmailPenalty(e, host) ==
  LET domain == DomainOf(e)
      excess == IF length(e) > 24 THEN length(e) - 24 ELSE 0
  IN  (IF domain = host THEN 500 ELSE 0)
      + (IF endsWith(domain, <<".">> \o host) THEN 400 ELSE 0)
      + (IF Len(e) >= 2 /\ lowerTok(e[1]) \in RoleLocals /\ e[2] = "@" THEN 80 ELSE 0)
      - excess

(* score(e) of bestEmailForDomain, in tenths. *)
score(e, host) ==
  LET domain == DomainOf(e)
      excess == IF length(e) > 24 THEN length(e) - 24 ELSE 0
  IN  (IF domain = host THEN 500 ELSE 0)
      + (IF endsWith(domain, <<".">> \o host) THEN 400 ELSE 0)
      + (IF Len(e) >= 2 /\ lowerTok(e[1]) \in RoleLocals /\ e[2] = "@" THEN 80 ELSE 0)
      - (IF \E w \in Webmails : endsWith(lower(domain), w) THEN 200 ELSE 0)
      - excess

(* [...candidates].sort((a, b) => score(b) - score(a)): a stable sort. *)
RECURSIVE insert(_, _, _)
insert(x, sorted, host) ==
  IF sorted = <<>> THEN <<x>>
  ELSE IF score(Head(sorted), host) >= score(x, host)
  THEN <<Head(sorted)>> \o insert(x, Tail(sorted), host)
  ELSE <<x>> \o sorted

RECURSIVE sort(_, _)
sort(arr, host) ==
  IF arr = <<>> THEN <<>>
  ELSE insert(arr[Len(arr)], sort(SubSeq(arr, 1, Len(arr) - 1), host), host)

(* score throws on a candidate without '@' (domain is undefined); sort      *)
(* calls the comparator only for two candidates or more.                   *)
bestEmailForDomain(candidates, siteHost) ==
  IF candidates = <<>> THEN RetNull
  ELSE IF Len(candidates) >= 2 /\ \E i \in DOMAIN candidates : ~HasAt(candidates[i])
  THEN Thrown
  ELSE Ret(sort(candidates, lower(siteHost))[1])

CallIds == 1..MaxCalls
Absent == [v |-> "absent", s |-> <<>>]
EmptyCache == [h \in Hosts |-> Absent]
NoCall == [pc |-> "idle", site |-> "", name |-> FALSE, siteUrl |-> "null",
           siteHost |-> <<>>, seen |-> <<>>, visited |-> {}, log |-> <<>>,
           url |-> "null", links |-> <<>>, todo |-> <<>>, maps |-> <<>>,
           fetched |-> 0, out |-> Absent, cached |-> FALSE]
NoCalls == [i \in CallIds |-> NoCall]
NoScorer == [candidates |-> <<>>, host |-> <<>>, out |-> Absent]

VARIABLES
  SENT,                 \* the in-memory ledger (a Set of lowercased emails)
  saveTimer,            \* TRUE while a debounced save is pending
  sentFile,             \* contents of sent-emails.json
  RESEND_ON_SHORTFALL,  \* the process's environment flag
  jobs,                 \* jobId -> job object {log, done, cancelled, file, stats, _senders, _hb}
  run,                  \* jobId -> locals of the job's background task
  pool,                 \* jobId -> runPool state: the task queue q and the workers
  conn,                 \* observer -> the job it streams and the events it received
  quota,                \* what the environment may still do (model bounds)
  cleared,              \* history: /api/dedupe/clear has run
  disk,                 \* the timers of queueSaveSent and the writes of sent-emails.json in flight
  rendering,            \* a call of trySend's render: template, context and result
  poolCall,             \* a call of runPool on tasks of any behaviour
  mailCall,             \* a call of sendEmail of mailer.js
  placesCall,           \* a call of findBusinesses of places.js
  jobCall,              \* a call of runJob
  streamCall,           \* a walk of the generator leadStream
  sessionCache,         \* enrich.js: hostname -> result of findEmailOnSite
  calls,                \* enrich.js: the findEmailOnSite calls of the process
  scorer                \* a bestEmailForDomain call: its arguments and result

vars == <<SENT, saveTimer, sentFile, RESEND_ON_SHORTFALL, jobs, run,
          pool, conn, quota, cleared, disk, rendering, poolCall,
          mailCall, placesCall, jobCall, streamCall,
          sessionCache, calls, scorer>>

lib == <<mailCall, placesCall, jobCall, streamCall>>
server == <<SENT, saveTimer, sentFile, RESEND_ON_SHORTFALL, jobs, run,
            pool, conn, quota, cleared, disk, rendering, poolCall, lib>>
enrich == <<sessionCache, calls, scorer>>

(* ------------------------------- state -------------------------------- *)
ZeroStats == [found |-> 0, withEmail |-> 0, sent |-> 0, skipped |-> 0]

NewJob == [log |-> <<>>, done |-> FALSE, cancelled |-> FALSE, file |-> "null",
           stats |-> ZeroStats, _senders |-> {}, _hb |-> FALSE]

NoRun == [pc |-> "none", targetCap |-> 0, IGNORE_PREV |-> FALSE,
          cityList |-> <<>>, areaList |-> <<>>,
          pass |-> "primary", areas |-> 0, area |-> 0, query |-> 0,
          pageNo |-> 0, cursor |-> FALSE, rows |-> <<>>,
          seenInRunEmails |-> {}, seenInRunSites |-> {}, sentAtStart |-> {}]

(* runPool: the queue q, the number k of tasks shifted off it, the number  *)
(* of workers that are running (not suspended in a task, not ended), and   *)
(* the tasks in flight, each with the await it is suspended at.  A worker  *)
(* is suspended in exactly one task in flight.                             *)
NoPool == [q |-> <<>>, k |-> 0, running |-> 0, tasks |-> {}]

NoConn == [job |-> 0, open |-> FALSE, recv |-> <<>>]

Registered(j) == run[j].pc # "none"

NoMailCall == [pc |-> "none"]
NoPlacesCall == [pc |-> "none"]
NoJobCall == [pc |-> "none"]
NoStreamCall == [pc |-> "none"]
LibIdle ==
  /\ mailCall = NoMailCall
  /\ placesCall = NoPlacesCall
  /\ jobCall = NoJobCall
  /\ streamCall = NoStreamCall

NoPoolCall == [pc |-> "none", kinds |-> <<>>, limit |-> 0, q |-> <<>>, workers |-> <<>>,
               started |-> <<>>, outcome |-> <<>>]

NoRender == [tpl |-> <<>>, ctx |-> <<>>, out |-> <<>>, done |-> FALSE]

(* No timer armed, no write of sent-emails.json in flight; bursts, started, *)
(* clears and failed are history: the times queueSaveSent armed a timer    *)
(* with none pending, the writes the timer started, the writes of          *)
(* /api/dedupe/clear, and whether a write has failed.                      *)
NoDisk == [timers |-> 0, bursts |-> 0, started |-> 0, clears |-> 0,
           writes |-> {}, failed |-> FALSE]

(* A queueSaveSent that arms a timer without clearing the pending one. *)
queueSaveSentNoClear(d) ==
  [d EXCEPT !.timers = @ + 1, !.bursts = IF d.timers = 0 THEN @ + 1 ELSE @]

(* queueSaveSent: clearTimeout(saveTimer), then setTimeout. *)
queueSaveSent(d) ==
  [d EXCEPT !.timers = 1, !.bursts = IF d.timers = 0 THEN @ + 1 ELSE @]

ServerInit(nJobs, nPages, nItems, nHb) ==
  /\ SENT \in SentFiles
  /\ sentFile = SENT
  /\ saveTimer = FALSE
  /\ RESEND_ON_SHORTFALL \in BOOLEAN
  /\ jobs = [j \in JobIds |-> NewJob]
  /\ run = [j \in JobIds |-> NoRun]
  /\ pool = [j \in JobIds |-> NoPool]
  /\ conn = [o \in Observers |-> NoConn]
  /\ quota = [jobs |-> nJobs, pages |-> nPages, items |-> nItems, hb |-> nHb]
  /\ cleared = FALSE
  /\ disk = NoDisk

InitWith(nJobs, nPages, nItems, nHb) ==
  /\ ServerInit(nJobs, nPages, nItems, nHb)
  /\ sessionCache = EmptyCache
  /\ calls = NoCalls
  /\ scorer = NoScorer
  /\ rendering = NoRender
  /\ poolCall = NoPoolCall
  /\ LibIdle

Init == InitWith(1, MaxSrcPages, MaxItems, 0)

(* --------------------------- log / observers --------------------------- *)
LogEv(line)    == [event |-> "log", data |-> line]
StatsEv(stats) == [event |-> "stats", data |-> stats]
DoneEv(job)    == [event |-> "done", data |-> [file |-> job.file, stats |-> job.stats]]

(* The handlers below transform s = [job, run, pool, conn]: the job object, *)
(* the locals of its background task, its worker pool and the observers'   *)
(* connections.                                                            *)
St(j) == [job |-> jobs[j], run |-> run[j], pool |-> pool[j], conn |-> conn]

Deliver(s, evs) ==
  [s EXCEPT !.conn = [o \in Observers |->
     IF o \in s.job._senders THEN [s.conn[o] EXCEPT !.recv = @ \o evs]
     ELSE s.conn[o]]]

(* A log line {ts, message}: ts orders the lines of a job, and the model    *)
(* keeps of a line its number in that order; the text is not modelled.     *)
Line(s, message) == Len(s.job.log) + 1

pushLog(s, message) ==
  LET line == Line(s, message)
      t == [s EXCEPT !.job.log = Append(@, line)]
  IN  Deliver(t, <<LogEv(line), StatsEv(t.job.stats)>>)

Commit(j, s) ==
  /\ jobs' = [jobs EXCEPT ![j] = s.job]
  /\ run' = [run EXCEPT ![j] = s.run]
  /\ pool' = [pool EXCEPT ![j] = s.pool]
  /\ conn' = s.conn

(* ------------------------- main task of a job -------------------------- *)
CapReached(s) == s.job.stats.sent >= s.run.targetCap
Stop(s) == s.job.cancelled \/ CapReached(s)

(* Completion of the primary or the fallback pass: "Stopped by user" and   *)
(* the start of the CSV write.                                             *)
Finish(s) ==
  LET t == IF s.job.cancelled THEN pushLog(s, "stopped") ELSE s
  IN  [t EXCEPT !.run.pc = "csv"]

(* The start of a query: the log line of the primary pass, cursor = null,  *)
(* pageNo = 0 and the first fetchBusinessesPage of the while loop.         *)
StartQuery(s, a, k) ==
  LET t == IF s.run.pass = "primary" THEN pushLog(s, "searching") ELSE s
  IN  [t EXCEPT !.run.area = a, !.run.query = k, !.run.pageNo = 0,
                !.run.cursor = FALSE, !.run.pc = "fetch"]

EndPass(s) ==
  IF /\ s.run.pass = "primary"
     /\ ~s.job.cancelled /\ ~CapReached(s) /\ RESEND_ON_SHORTFALL
  THEN StartQuery([pushLog(s, "fallback") EXCEPT !.run.pass = "fallback"], 1, 1)
  ELSE Finish(s)

(* After a query's while loop ends: the checks at the head of the query    *)
(* loop and of the area loop.                                              *)
NextQuery(s) ==
  IF Stop(s) THEN EndPass(s)
  ELSE IF s.run.query < NumPhrasings THEN StartQuery(s, s.run.area, s.run.query + 1)
  ELSE IF s.run.area < s.run.areas THEN StartQuery(s, s.run.area + 1, 1)
  ELSE EndPass(s)

(* A .catch handler that logs the error and leaves done unset. *)
CatchHandlerNoDone(s) ==
  [pushLog([s EXCEPT !.job._hb = FALSE], "job_error") EXCEPT !.run.pc = "failed"]

(* The .catch handler of the background task. *)
CatchHandler(s) ==
  LET t == pushLog([s EXCEPT !.job._hb = FALSE], "job_error")
  IN  [t EXCEPT !.job.done = TRUE, !.run.pc = "failed"]

(* targetCap = Math.min(Number(cap || maxSend), maxSend) *)
TargetCap(cap) ==
  LET maxSend   == DEFAULT_SEND_CAP
      requested == IF cap = 0 THEN maxSend ELSE cap
  IN  Min(requested, maxSend)

(* POST /api/run: registers the job and runs the background task up to its *)
(* first await.  cityQueries(niche, area) builds template strings from     *)
(* niche and throws when niche cannot be converted to a string (nicheOk    *)
(* FALSE); the rejection is handled by CatchHandler before the handler's   *)
(* turn ends.  The model walks the first maxAreas of the areas.              *)
Run(j, cap, ignorePrevious, nicheOk, cityList, maxAreas) ==
  /\ ~Registered(j)
  /\ \A i \in JobIds : i < j => Registered(i)
  /\ quota.jobs > 0
  /\ quota' = [quota EXCEPT !.jobs = @ - 1]
  /\ LET s == [job  |-> [NewJob EXCEPT !._hb = TRUE],
               run  |-> [NoRun EXCEPT !.targetCap = TargetCap(cap),
                                      !.IGNORE_PREV = ignorePrevious,
                                      !.cityList = cityList,
                                      !.areaList = Slice(Areas(cityList), maxAreas),
                                      !.areas = Len(Slice(Areas(cityList), maxAreas)),
                                      !.area = 1,
                                      !.sentAtStart = SENT],
               pool |-> NoPool,
               conn |-> conn]
     IN  Commit(j, IF Stop(s) THEN EndPass(s)
                   ELSE IF ~nicheOk THEN CatchHandler(s)
                   ELSE StartQuery(s, 1, 1))
  /\ UNCHANGED <<SENT, saveTimer, sentFile, RESEND_ON_SHORTFALL, cleared, disk, rendering, poolCall, lib, enrich>>

(* ------------------------- tasks of the pool --------------------------- *)
(* An increment written as an assignment of 1. *)
BumpAssign(s, field) == [s EXCEPT !.job.stats[field] = 1]

Bump(s, field) == [s EXCEPT !.job.stats[field] = @ + 1]

(* Variants of the check at the head of a task: without the cap, with the  *)
(* cap compared by > instead of >=, and without the cancelled flag.        *)
TaskSkipsNoCap(s) == s.job.cancelled
TaskSkipsCapOffByOne(s) == s.job.cancelled \/ s.job.stats.sent > s.run.targetCap
TaskSkipsNoCancel(s) == CapReached(s)

(* The check at the head of every task, in both passes. *)
TaskSkips(s) == s.job.cancelled \/ CapReached(s)

siteKey(website) == website

(* A task head that returns for a business without a website before        *)
(* counting it as skipped.                                                 *)
TaskBeginNoWebsiteUncounted(s, b) ==
  IF TaskSkips(s) THEN [s |-> s, crawl |-> FALSE]
  ELSE IF s.run.pass = "primary"
  THEN LET t == Bump(s, "found")
       IN  IF b = NoWebsite
           THEN [s |-> pushLog(t, "no_website"), crawl |-> FALSE]
           ELSE IF siteKey(b) \in t.run.seenInRunSites
           THEN [s |-> Bump(t, "skipped"), crawl |-> FALSE]
           ELSE [s |-> [t EXCEPT !.run.seenInRunSites = @ \cup {siteKey(b)}],
                 crawl |-> TRUE]
  ELSE [s |-> s, crawl |-> b # NoWebsite]

(* A task from its start to its first await: [s, crawl], crawl telling     *)
(* whether it reached the await of findEmailOnSite (else it returned).     *)
TaskBegin(s, b) ==
  IF TaskSkips(s) THEN [s |-> s, crawl |-> FALSE]
  ELSE IF s.run.pass = "primary"
  THEN LET t == Bump(s, "found")
       IN  IF b = NoWebsite
           THEN [s |-> pushLog(Bump(t, "skipped"), "no_website"), crawl |-> FALSE]
           ELSE IF siteKey(b) \in t.run.seenInRunSites
           THEN [s |-> Bump(t, "skipped"), crawl |-> FALSE]
           ELSE [s |-> [t EXCEPT !.run.seenInRunSites = @ \cup {siteKey(b)}],
                 crawl |-> TRUE]
  ELSE [s |-> s, crawl |-> b # NoWebsite]

(* The workers that are not suspended run on: each takes the next task off *)
(* q until it reaches an await in a task, or ends when q is empty.         *)
RECURSIVE Drain(_)
Drain(s) ==
  IF s.pool.running = 0 THEN s
  ELSE IF s.pool.q = <<>>
  THEN Drain([s EXCEPT !.pool.running = @ - 1])
  ELSE LET b == Head(s.pool.q)
           r == TaskBegin([s EXCEPT !.pool.q = Tail(@), !.pool.k = @ + 1], b)
       IN  IF r.crawl
           THEN Drain([r.s EXCEPT
                  !.pool.running = @ - 1,
                  !.pool.tasks = @ \cup {[id |-> r.s.pool.k, at |-> "crawl",
                                          website |-> b, email |-> NoEmail]}])
           ELSE Drain(r.s)

(* A loop without "if (!cursor) break": only the while check. *)
AfterPoolNoCursorCheck(s) ==
  IF ~Stop(s) THEN [s EXCEPT !.run.pc = "fetch"] ELSE NextQuery(s)

(* After runPool resolved: if (!cursor) break, else the while check. *)
AfterPool(s) ==
  IF s.run.cursor /\ ~Stop(s) THEN [s EXCEPT !.run.pc = "fetch"] ELSE NextQuery(s)

(* The job runs on until every task of it is suspended. *)
Settle(s) ==
  LET d == Drain(s)
  IN  IF d.run.pc = "pool" /\ d.pool.tasks = {} THEN AfterPool(d) ELSE d

(* runPool(tasks, limit): q = tasks.slice() and min(limit, q.length) workers. *)
runPool(items) ==
  [q |-> items, k |-> 0, running |-> Min(CONCURRENCY, Len(items)), tasks |-> {}]

Frame == UNCHANGED <<SENT, saveTimer, sentFile, RESEND_ON_SHORTFALL, quota, cleared, disk, rendering, poolCall, lib, enrich>>

(* A rejected fetchBusinessesPage that ends the whole job. *)
PageErrorEndsJob(j) ==
  /\ run[j].pc = "fetch"
  /\ Commit(j, Finish(pushLog(St(j), "places_error")))
  /\ Frame

(* fetchBusinessesPage rejects: the query ends ("Places error" is logged   *)
(* in the primary pass only).                                              *)
PageError(j) ==
  /\ run[j].pc = "fetch"
  /\ LET s == St(j)
         t == IF s.run.pass = "primary" THEN pushLog(s, "places_error") ELSE s
     IN  Commit(j, NextQuery(t))
  /\ Frame

(* fetchBusinessesPage resolves with no items: the query ends. *)
PageEmpty(j, next) ==
  /\ run[j].pc = "fetch"
  /\ LET s == [St(j) EXCEPT !.run.cursor = next, !.run.pageNo = @ + 1]
         t == IF s.run.pass = "primary"
              THEN pushLog(s, IF s.run.pageNo = 1 THEN "no_results" ELSE "no_more_results")
              ELSE s
     IN  Commit(j, NextQuery(t))
  /\ Frame

(* fetchBusinessesPage resolves with items: the page is handed to runPool. *)
PageItems(j, items, next) ==
  /\ run[j].pc = "fetch"
  /\ quota.pages > 0
  /\ quota' = [quota EXCEPT !.pages = @ - 1]
  /\ (next => quota.pages > 1)
  /\ LET s == [St(j) EXCEPT !.run.cursor = next, !.run.pageNo = @ + 1]
         t == IF s.run.pass = "primary" THEN pushLog(s, "page") ELSE s
     IN  Commit(j, Settle([t EXCEPT !.run.pc = "pool", !.pool = runPool(items)]))
  /\ UNCHANGED <<SENT, saveTimer, sentFile, RESEND_ON_SHORTFALL, cleared, disk, rendering, poolCall, lib, enrich>>

(* Variants of the dedupe check: one that never consults the ledger, one   *)
(* that never consults the addresses seen in this run.                     *)
IsDuplicateRunOnly(s, ekey) == ekey \in s.run.seenInRunEmails
IsDuplicateLedgerOnly(s, ekey) ==
  s.run.pass = "primary" /\ ~s.run.IGNORE_PREV /\ ekey \in SENT

(* The dedupe check of a task on the key of the email the crawler found. *)
IsDuplicate(s, ekey) ==
  IF s.run.pass = "primary"
  THEN IF ~s.run.IGNORE_PREV
       THEN ekey \in SENT \/ ekey \in s.run.seenInRunEmails
       ELSE ekey \in s.run.seenInRunEmails
  ELSE ekey \in s.run.seenInRunEmails

(* findEmailOnSite settles (email = NoEmail: it found nothing or threw):   *)
(* the task runs up to the await of sendEmail in trySend, or returns.      *)
CrawlReturn(j, t, email) ==
  /\ t \in pool[j].tasks
  /\ t.at = "crawl"
  /\ email \in CrawlerFinds(t.website)
  /\ LET s == St(j)
         ekey == toLowerCase(email)
         ready == [s EXCEPT !.pool.tasks = @ \ {t}, !.pool.running = @ + 1]
     IN  IF email = NoEmail
         THEN Commit(j, Settle(IF s.run.pass = "primary"
                               THEN pushLog(Bump(ready, "skipped"), "no_email")
                               ELSE ready))
         ELSE IF IsDuplicate(s, ekey)
         THEN Commit(j, Settle(IF s.run.pass = "primary"
                               THEN Bump(ready, "skipped") ELSE ready))
         ELSE Commit(j, [Bump(s, "withEmail") EXCEPT
                           !.run.seenInRunEmails = @ \cup {ekey},
                           !.pool.tasks = (@ \ {t}) \cup
                              {[t EXCEPT !.at = "send", !.email = email]}])
  /\ Frame

(* A trySend whose catch branch appends the row and leaves skipped alone. *)
trySendFailureUncounted(s, email, ok) ==
  IF ok
  THEN pushLog([Bump(s, "sent") EXCEPT
                 !.run.rows = Append(@, [email |-> email, status |-> "sent"])], "sent")
  ELSE pushLog([s EXCEPT
                 !.run.rows = Append(@, [email |-> email, status |-> "send_failed"])],
               "send_failed")

(* trySend after sendEmail settled. *)
trySend(s, email, ok) ==
  IF ok
  THEN pushLog([Bump(s, "sent") EXCEPT
                 !.run.rows = Append(@, [email |-> email, status |-> "sent"])], "sent")
  ELSE pushLog([Bump(s, "skipped") EXCEPT
                 !.run.rows = Append(@, [email |-> email, status |-> "send_failed"])],
               "send_failed")

(* A task that records the address whatever trySend returned. *)
RecordsSendAlways(s, ok) == s.run.pass = "primary"

(* Whether the task records a successful send in the ledger. *)
RecordsSend(s, ok) == ok /\ s.run.pass = "primary"

(* sendEmail settles: trySend finishes, the primary pass records the       *)
(* address (SENT.add, queueSaveSent), and the task awaits the throttle.    *)
SendReturn(j, t, ok) ==
  /\ t \in pool[j].tasks
  /\ t.at = "send"
  /\ LET s == St(j)
         email == t.email
     IN  /\ Commit(j, [trySend(s, email, ok) EXCEPT
                         !.pool.tasks = (@ \ {t}) \cup {[t EXCEPT !.at = "sleep"]}])
         /\ IF RecordsSend(s, ok)
            THEN /\ SENT' = SENT \cup {toLowerCase(email)}
                 /\ saveTimer' = TRUE
                 /\ disk' = queueSaveSent(disk)
            ELSE UNCHANGED <<SENT, saveTimer, disk>>
  /\ UNCHANGED <<sentFile, RESEND_ON_SHORTFALL, quota, cleared, rendering, poolCall, lib, enrich>>

(* sleep(throttleMs) ends: the task is over, the worker loops. *)
SleepReturn(j, t) ==
  /\ t \in pool[j].tasks
  /\ t.at = "sleep"
  /\ Commit(j, Settle([St(j) EXCEPT !.pool.tasks = @ \ {t}, !.pool.running = @ + 1]))
  /\ Frame

(* A completion that sets done and logs, without the done event. *)
CompleteNoBroadcast(s, ok) ==
  LET a == IF ok THEN [s EXCEPT !.job.file = "results.csv"]
           ELSE pushLog(s, "csv_write_failed")
      b == pushLog([a EXCEPT !.job._hb = FALSE, !.job.done = TRUE], "job_complete")
  IN  [b EXCEPT !.run.pc = "done"]

(* writer.writeRecords(rows) settles; then clearInterval, done = true, the *)
(* last log line and the done event to every attached observer.            *)
(* A completion without clearInterval. *)
CompleteKeepsHeartbeat(s, ok) ==
  LET a == IF ok THEN [s EXCEPT !.job.file = "results.csv"]
           ELSE pushLog(s, "csv_write_failed")
      b == pushLog([a EXCEPT !.job.done = TRUE], "job_complete")
  IN  [Deliver(b, <<DoneEv(b.job)>>) EXCEPT !.run.pc = "done"]

Complete(s, ok) ==
  LET a == IF ok THEN [s EXCEPT !.job.file = "results.csv"]
           ELSE pushLog(s, "csv_write_failed")
      b == pushLog([a EXCEPT !.job._hb = FALSE, !.job.done = TRUE], "job_complete")
  IN  [Deliver(b, <<DoneEv(b.job)>>) EXCEPT !.run.pc = "done"]

CsvReturn(j, ok) ==
  /\ run[j].pc = "csv"
  /\ Commit(j, Complete(St(j), ok))
  /\ Frame

(* --------------------------- the environment --------------------------- *)
(* The heartbeat interval fires. *)
Heartbeat(j) ==
  /\ jobs[j]._hb
  /\ quota.hb > 0
  /\ quota' = [quota EXCEPT !.hb = @ - 1]
  /\ Commit(j, pushLog(St(j), "still_working"))
  /\ UNCHANGED <<SENT, saveTimer, sentFile, RESEND_ON_SHORTFALL, cleared, disk, rendering, poolCall, lib, enrich>>

(* POST /api/cancel *)
Cancel(j) ==
  /\ Registered(j)
  /\ jobs' = [jobs EXCEPT ![j].cancelled = TRUE]
  /\ UNCHANGED <<SENT, saveTimer, sentFile, RESEND_ON_SHORTFALL, run, pool, conn, quota, cleared, disk, rendering, poolCall, lib, enrich>>

(* POST /api/dedupe/clear: a new empty Set, and '[]' written to the file   *)
(* unless the write fails (the failure is swallowed).                      *)
DedupeClear(ok) ==
  /\ SENT' = {}
  /\ sentFile' = IF ok THEN {} ELSE sentFile
  /\ cleared' = TRUE
  /\ UNCHANGED <<saveTimer, RESEND_ON_SHORTFALL, jobs, run, pool, conn, quota, disk, rendering, poolCall, lib, enrich>>

(* The timer of queueSaveSent fires: fs.writeFile is started with the     *)
(* ledger as it is now.                                                    *)
SaveFire ==
  /\ disk.timers > 0
  /\ disk' = [disk EXCEPT !.timers = @ - 1, !.started = @ + 1,
                          !.writes = @ \cup {[id |-> disk.started + disk.clears + 1,
                                              data |-> SENT]}]
  /\ saveTimer' = (disk.timers > 1)
  /\ UNCHANGED <<SENT, sentFile, RESEND_ON_SHORTFALL, jobs, run, pool, conn, quota, cleared, rendering, poolCall, lib, enrich>>

(* POST /api/dedupe/clear up to its await: a new empty Set, and the write   *)
(* of '[]' is started.  A pending timer of queueSaveSent is left alone.    *)
ClearBegin ==
  /\ ~cleared
  /\ SENT' = {}
  /\ cleared' = TRUE
  /\ disk' = [disk EXCEPT !.clears = @ + 1,
                          !.writes = @ \cup {[id |-> disk.started + disk.clears + 1,
                                              data |-> {}]}]
  /\ UNCHANGED <<saveTimer, sentFile, RESEND_ON_SHORTFALL, jobs, run, pool, conn, quota, rendering, poolCall, lib, enrich>>

(* A write of sent-emails.json settles: the file holds what that write was *)
(* given, or the write failed (the failure is logged or swallowed).  Two   *)
(* writes in flight settle in either order.                                *)
WriteReturn(w, ok) ==
  /\ w \in disk.writes
  /\ disk' = [disk EXCEPT !.writes = @ \ {w}, !.failed = @ \/ ~ok]
  /\ sentFile' = IF ok THEN w.data ELSE sentFile
  /\ UNCHANGED <<SENT, saveTimer, RESEND_ON_SHORTFALL, jobs, run, pool, conn, quota, cleared, rendering, poolCall, lib, enrich>>

(* A stream that starts with the stats, without the replay of the log. *)
ReplayStatsOnly(job) == <<StatsEv(job.stats)>>

(* GET /api/stream: replay of the log, the stats, and either the done      *)
(* event and the end of the response, or the registration of the sender.   *)
Replay(job) ==
  [i \in 1..Len(job.log) |-> LogEv(job.log[i])] \o <<StatsEv(job.stats)>>

Attach(o, j) ==
  /\ conn[o].job = 0
  /\ Registered(j)
  /\ IF jobs[j].done
     THEN /\ conn' = [conn EXCEPT ![o] = [job |-> j, open |-> FALSE,
                                          recv |-> Replay(jobs[j]) \o <<DoneEv(jobs[j])>>]]
          /\ UNCHANGED jobs
     ELSE /\ conn' = [conn EXCEPT ![o] = [job |-> j, open |-> TRUE, recv |-> Replay(jobs[j])]]
          /\ jobs' = [jobs EXCEPT ![j]._senders = @ \cup {o}]
  /\ UNCHANGED <<SENT, saveTimer, sentFile, RESEND_ON_SHORTFALL, run, pool, quota, cleared, disk, rendering, poolCall, lib, enrich>>

(* The request of a stream closes: the sender is deleted, and the response  *)
(* with what was written to it is gone.                                    *)
Detach(o) ==
  /\ conn[o].open
  /\ conn' = [conn EXCEPT ![o].open = FALSE, ![o].recv = <<>>]
  /\ jobs' = [jobs EXCEPT ![conn[o].job]._senders = @ \ {o}]
  /\ UNCHANGED <<SENT, saveTimer, sentFile, RESEND_ON_SHORTFALL, run, pool, quota, cleared, disk, rendering, poolCall, lib, enrich>>

(* ----------------------------- specification --------------------------- *)
JobStep(j) ==
  \/ PageError(j)
  \/ \E next \in BOOLEAN : PageEmpty(j, next)
  \/ \E items \in PagesUpTo(quota.items), next \in BOOLEAN : PageItems(j, items, next)
  \/ \E t \in pool[j].tasks, email \in Emails \cup {NoEmail} : CrawlReturn(j, t, email)
  \/ \E t \in pool[j].tasks, ok \in BOOLEAN : SendReturn(j, t, ok)
  \/ \E t \in pool[j].tasks : SleepReturn(j, t)
  \/ \E ok \in BOOLEAN : CsvReturn(j, ok)

SubmitFrom(caps, flags, niches) ==
  \E j \in JobIds, cap \in caps, ignorePrevious \in flags, nicheOk \in niches,
     maxAreas \in 1..MaxAreas : Run(j, cap, ignorePrevious, nicheOk, <<>>, maxAreas)

(* Any request body. *)
Submit == SubmitFrom(Caps, BOOLEAN, BOOLEAN)

(* A request without cap and without ignorePrevious. *)
SubmitDefault == SubmitFrom({0}, {FALSE}, {TRUE})

Core == Submit \/ \E j \in JobIds : JobStep(j)

(* One job, one page: the run with /api/cancel and /api/dedupe/clear. *)
Next ==
  \/ Core
  \/ \E j \in JobIds : Cancel(j)
  \/ \E ok \in BOOLEAN : DedupeClear(ok)

Spec == Init /\ [][Next]_vars

(* One job and a page with more businesses than the pool has workers. *)
InitCap == InitWith(1, MaxSrcPages, CapItems, 0)
NextCap == Core
SpecCap == InitCap /\ [][NextCap]_vars

(* One job with a page in the primary and a page in the fallback pass. *)
InitTwoPass == InitWith(1, TwoPassPages, MaxItems, 0) /\ RESEND_ON_SHORTFALL
NextTwoPass ==
  \/ SubmitFrom({0}, BOOLEAN, {TRUE})
  \/ \E j \in JobIds : JobStep(j)
SpecTwoPass == InitTwoPass /\ [][NextTwoPass]_vars

(* Two overlapping jobs of default requests, fallback pass disabled. *)
InitMulti == InitWith(2, TwoPassPages, FewItems, 0) /\ ~RESEND_ON_SHORTFALL
NextMulti ==
  \/ SubmitDefault
  \/ \E j \in JobIds : JobStep(j)
SpecMulti == InitMulti /\ [][NextMulti]_vars

(* Two jobs at once, with pages of up to MaxItems businesses each: the     *)
(* pools of both jobs are busy at the same time.                           *)
InitGate == InitWith(2, TwoPassPages, MaxItems, 0) /\ ~RESEND_ON_SHORTFALL
NextGate ==
  \/ SubmitFrom({1}, {FALSE}, {TRUE})
  \/ \E j \in JobIds :
       \/ PageError(j)
       \/ PageEmpty(j, FALSE)
       \/ \E items \in [1..MaxItems -> {"x.com", "y.com"}] : PageItems(j, items, FALSE)
       \/ \E t \in pool[j].tasks, email \in {"b@y.com", NoEmail} : CrawlReturn(j, t, email)
       \/ \E t \in pool[j].tasks, ok \in BOOLEAN : SendReturn(j, t, ok)
       \/ \E t \in pool[j].tasks : SleepReturn(j, t)
       \/ \E ok \in BOOLEAN : CsvReturn(j, ok)
SpecGate == InitGate /\ [][NextGate]_vars

(* One job whose queries have up to two pages, with a cap of one or two    *)
(* emails and /api/cancel, the fallback pass enabled or not.               *)
InitPaging == InitWith(1, TwoPassPages, MaxItems, 0)
NextPaging ==
  \/ SubmitFrom({0, 1}, {FALSE}, {TRUE})
  \/ \E j \in JobIds : JobStep(j)
  \/ \E j \in JobIds : Cancel(j)
SpecPaging == InitPaging /\ [][NextPaging]_vars

(* One job over a page with more businesses than workers, stoppable by     *)
(* POST /api/cancel at any moment.                                          *)
NextCancel == Core \/ \E j \in JobIds : Cancel(j)
SpecCancel == InitCap /\ [][NextCancel]_vars

(* One job with a cap of one email, and its observers. *)
InitStream == InitWith(1, MaxSrcPages, FewItems, MaxHeartbeats) /\ ~RESEND_ON_SHORTFALL
NextStream ==
  \/ SubmitFrom({1}, {FALSE}, BOOLEAN)
  \/ \E j \in JobIds : JobStep(j)
  \/ \E j \in JobIds : Heartbeat(j)
  \/ \E j \in JobIds : Cancel(j)
  \/ \E o \in Observers, j \in JobIds : Attach(o, j)
  \/ \E o \in Observers : Detach(o)
SpecStream == InitStream /\ [][NextStream]_vars

(* One job over all the areas of its city list, one non-empty page. *)
SubmitCities ==
  \E j \in JobIds, cap \in {0, 1}, cityList \in CityLists :
    Run(j, cap, FALSE, TRUE, cityList, Len(Areas(cityList)))

InitWalk == InitWith(1, MaxSrcPages, FewItems, 0)
NextWalk ==
  \/ SubmitCities
  \/ \E j \in JobIds : JobStep(j)
  \/ \E j \in JobIds : Cancel(j)
SpecWalk == InitWalk /\ [][NextWalk]_vars

(* One job that may send to every address, the timer of queueSaveSent, the *)
(* writes of the ledger file and one /api/dedupe/clear.                    *)
InitLedger == InitWith(1, MaxSrcPages, MaxItems, 0) /\ ~RESEND_ON_SHORTFALL
NextLedger ==
  \/ SubmitFrom({0}, {TRUE}, {TRUE})
  \/ \E j \in JobIds : JobStep(j)
  \/ SaveFire
  \/ ClearBegin
  \/ \E w \in disk.writes, ok \in BOOLEAN : WriteReturn(w, ok)
SpecLedger == InitLedger /\ [][NextLedger]_vars

(* Every await of a job settles: the Business Source, the crawler, the     *)
(* mail sender, the throttle sleep and the CSV writer answer or fail.      *)
Fairness == \A j \in JobIds : WF_vars(JobStep(j))
NextFair == Core \/ \E j \in JobIds : Cancel(j)
SpecFair == Init /\ [][NextFair]_vars /\ Fairness
SpecWalkFair == SpecWalk /\ Fairness

(* -------------------------- enrich.js: scorer ------------------------- *)
(* Lists of distinct strings of at most n elements. *)
ListsOf(S, n) ==
  UNION {{l \in [1..k -> S] : \A a, b \in 1..k : a # b => l[a] # l[b]} : k \in 0..n}

ServerIdle == ServerInit(0, 0, 0, 0) /\ ~RESEND_ON_SHORTFALL

(* bestEmailForDomain is called with a list of addresses and a hostname. *)
InitScore ==
  /\ ServerIdle
  /\ sessionCache = EmptyCache
  /\ calls = NoCalls
  /\ \E c \in ListsOf(Addresses, MaxCandidates), h \in Hosts \cup {<<"Acme", ".", "com">>} :
       scorer = [candidates |-> c, host |-> h, out |-> Absent]
  /\ rendering = NoRender
  /\ poolCall = NoPoolCall
  /\ LibIdle

Score ==
  /\ scorer.out = Absent
  /\ scorer' = [scorer EXCEPT !.out = bestEmailForDomain(scorer.candidates, scorer.host)]
  /\ UNCHANGED <<server, sessionCache, calls>>

SpecScore == InitScore /\ [][Score]_vars

(* ------------------------- trySend: render ---------------------------- *)
MaxTokens == 2   \* pieces of a template: {name} tokens and other text

(* The names a {name} token may carry: the fields of ctx, a name that is   *)
(* no property of an object, and names every object inherits.              *)
Fields == {"company", "city", "firstName", "website", "yourSite"}
TokenNames == Fields \cup {"unknown", "constructor", "__proto__"}

(* A template is a sequence of pieces, a piece being text that the pattern *)
(* \{(\w+)\} does not match or a token of that pattern.                    *)
Pieces == [kind : {"token"}, s : TokenNames] \cup {[kind |-> "text", s |-> "Hi "]}
Templates == UNION {[1..n -> Pieces] : n \in 0..MaxTokens}

(* ctx of trySend for a business name, an area, a website and a demo site. *)
Ctx(company, area, website, demoSite) ==
  [company   |-> IF company = "" THEN "your business" ELSE company,
   city      |-> area,
   firstName |-> "there",
   website   |-> website,
   yourSite  |-> demoSite]

(* A lookup that takes only the fields of ctx itself. *)
LookupOwn(ctx, k) == IF k \in DOMAIN ctx THEN ctx[k] ELSE ""

(* ctx[k] ?? '': an own field, else what ctx inherits from Object.prototype *)
(* converted to a string, else undefined.                                  *)
Lookup(ctx, k) ==
  IF k \in DOMAIN ctx THEN ctx[k]
  ELSE IF k = "constructor" THEN "function Object() { [native code] }"
  ELSE IF k = "__proto__" THEN "[object Object]"
  ELSE ""

(* render(tpl): every token replaced, other text kept; the pieces of the   *)
(* result in order.                                                        *)
render(tpl, ctx) ==
  [i \in DOMAIN tpl |-> IF tpl[i].kind = "token" THEN Lookup(ctx, tpl[i].s) ELSE tpl[i].s]

InitRender ==
  /\ ServerIdle
  /\ sessionCache = EmptyCache
  /\ calls = NoCalls
  /\ scorer = NoScorer
  /\ \E tpl \in Templates, company \in {"", "Acme"}, demoSite \in {"", "demo.com"} :
       rendering = [tpl |-> tpl, ctx |-> Ctx(company, "Boston", "x.com", demoSite),
                    out |-> <<>>, done |-> FALSE]
  /\ poolCall = NoPoolCall
  /\ LibIdle

Render ==
  /\ ~rendering.done
  /\ rendering' = [rendering EXCEPT !.out = render(rendering.tpl, rendering.ctx),
                                    !.done = TRUE]
  /\ UNCHANGED <<SENT, saveTimer, sentFile, RESEND_ON_SHORTFALL, jobs, run,
                 pool, conn, quota, cleared, disk, poolCall, lib, enrich>>

SpecRender == InitRender /\ [][Render]_vars

(* -------------------------- runPool on any tasks ---------------------- *)
MaxTasks == 3   \* tasks handed to runPool
MaxLimit == 2   \* the limit handed to runPool

(* A task either throws when it is called or returns a promise, which is   *)
(* fulfilled or rejected later.                                            *)
TaskKinds == {"throws", "async"}

(* A worker whose task threw and that had no catch: the worker's promise   *)
(* is rejected, and with it the promise of runPool.                        *)
Rethrow(s, w, i) ==
  [s |-> [s EXCEPT !.outcome[i] = "thrown", !.workers[w] = 0, !.pc = "rejected"],
   goesOn |-> FALSE]

(* try { await t(); } catch {}: the error is dropped, the loop goes on.    *)
Swallow(s, w, i) == [s |-> [s EXCEPT !.outcome[i] = "thrown"], goesOn |-> TRUE]

(* The loop of worker w up to its next await: while (q.length) it shifts a *)
(* task and calls it; with the queue empty the worker returns (0).         *)
RECURSIVE Loop(_, _)
Loop(s, w) ==
  IF s.q = <<>> THEN [s EXCEPT !.workers[w] = 0]
  ELSE LET i == Head(s.q)
           t == [s EXCEPT !.q = Tail(@), !.started[i] = @ + 1]
       IN  IF t.kinds[i] = "throws"
           THEN LET c == Swallow(t, w, i) IN IF c.goesOn THEN Loop(c.s, w) ELSE c.s
           ELSE [t EXCEPT !.workers[w] = i]

(* Array.from({length}, async () => ...): the workers are started in order, *)
(* each running to its first await before the next one starts.             *)
RECURSIVE StartWorkers(_, _)
StartWorkers(s, w) ==
  IF w > Len(s.workers) THEN s ELSE StartWorkers(Loop(s, w), w + 1)

(* await Promise.all(workers): fulfilled once every worker has returned.   *)
AllWorkers(s) ==
  IF s.pc = "running" /\ \A w \in DOMAIN s.workers : s.workers[w] = 0
  THEN [s EXCEPT !.pc = "resolved"] ELSE s

InitPool ==
  /\ ServerIdle
  /\ sessionCache = EmptyCache
  /\ calls = NoCalls
  /\ scorer = NoScorer
  /\ rendering = NoRender
  /\ \E n \in 0..MaxTasks, limit \in 0..MaxLimit :
       \E kinds \in [1..n -> TaskKinds] :
         poolCall = [NoPoolCall EXCEPT !.pc = "called", !.kinds = kinds, !.limit = limit]
  /\ LibIdle

(* runPool(tasks, limit) up to its await. *)
CallRunPool ==
  /\ poolCall.pc = "called"
  /\ LET n == Len(poolCall.kinds)
         s == [poolCall EXCEPT
                 !.pc = "running",
                 !.q = [i \in 1..n |-> i],
                 !.workers = [w \in 1..Min(poolCall.limit, n) |-> 0],
                 !.started = [i \in 1..n |-> 0],
                 !.outcome = [i \in 1..n |-> "none"]]
     IN  poolCall' = AllWorkers(StartWorkers(s, 1))
  /\ UNCHANGED <<SENT, saveTimer, sentFile, RESEND_ON_SHORTFALL, jobs, run,
                 pool, conn, quota, cleared, disk, rendering, lib, enrich>>

(* The promise of the task worker w awaits is settled. *)
TaskReturn(w, ok) ==
  /\ poolCall.pc \in {"running", "rejected"}
  /\ w \in DOMAIN poolCall.workers
  /\ poolCall.workers[w] # 0
  /\ LET i == poolCall.workers[w]
     IN  poolCall' =
           IF ok THEN AllWorkers(Loop([poolCall EXCEPT !.outcome[i] = "fulfilled"], w))
           ELSE LET c == Swallow(poolCall, w, i)
                IN  IF c.goesOn THEN AllWorkers(Loop(c.s, w)) ELSE c.s
  /\ UNCHANGED <<SENT, saveTimer, sentFile, RESEND_ON_SHORTFALL, jobs, run,
                 pool, conn, quota, cleared, disk, rendering, lib, enrich>>

NextPool == CallRunPool \/ \E w \in 1..MaxLimit, ok \in BOOLEAN : TaskReturn(w, ok)
SpecPool == InitPool /\ [][NextPool]_vars

(* The application at rest: no job, no crawl, no call of a function. *)
AppIdle ==
  /\ ServerIdle
  /\ sessionCache = EmptyCache
  /\ calls = NoCalls
  /\ scorer = NoScorer
  /\ rendering = NoRender
  /\ poolCall = NoPoolCall

(* -------------------------- mailer.js: sendEmail ---------------------- *)
MaxRetries == 6   \* largest MAILER_MAX_RETRIES of a process

(* Errors of transporter.sendMail, by their message. *)
SmtpErrors == {"Connection timeout", "421 Service not available",
               "550 Mailbox unavailable", "Invalid login"}

(* A test of the attempts that allows one attempt more. *)
ExhaustedLate(attempt, max) == attempt > max + 1

(* attempt > MAX_RETRIES *)
Exhausted(attempt, max) == attempt > max

(* transientSmtp: the lowercased message matches one of the two patterns. *)
transientSmtp(err) == err \in {"Connection timeout", "421 Service not available"}

(* let attempt = 0, delay = 400 and the first transporter.sendMail. *)
SendEmail ==
  /\ mailCall.pc = "called"
  /\ mailCall' = [mailCall EXCEPT !.pc = "sending", !.attempt = 0, !.delay = 400]
  /\ UNCHANGED <<SENT, saveTimer, sentFile, RESEND_ON_SHORTFALL, jobs, run, pool, conn,
                 quota, cleared, disk, rendering, poolCall,
                 placesCall, jobCall, streamCall, enrich>>

(* transporter.sendMail settles: return on success; in the catch, count    *)
(* the attempt, rethrow or sleep(delay).                                   *)
SendMailReturn(res) ==
  /\ mailCall.pc = "sending"
  /\ LET c == [mailCall EXCEPT !.results = Append(@, res)]
     IN  mailCall' =
           IF res = "ok" THEN [c EXCEPT !.pc = "returned", !.out = "info"]
           ELSE LET attempt == c.attempt + 1
                IN  IF Exhausted(attempt, c.MAX_RETRIES) \/ ~transientSmtp(res)
                    THEN [c EXCEPT !.attempt = attempt, !.pc = "threw", !.out = res]
                    ELSE [c EXCEPT !.attempt = attempt, !.pc = "sleeping",
                                   !.waits = Append(@, c.delay)]
  /\ UNCHANGED <<SENT, saveTimer, sentFile, RESEND_ON_SHORTFALL, jobs, run, pool, conn,
                 quota, cleared, disk, rendering, poolCall,
                 placesCall, jobCall, streamCall, enrich>>

(* sleep(delay) is over: delay = Math.min(delay * 2, 4000), next attempt. *)
BackoffReturn ==
  /\ mailCall.pc = "sleeping"
  /\ mailCall' = [mailCall EXCEPT !.pc = "sending", !.delay = Min(@ * 2, 4000)]
  /\ UNCHANGED <<SENT, saveTimer, sentFile, RESEND_ON_SHORTFALL, jobs, run, pool, conn,
                 quota, cleared, disk, rendering, poolCall,
                 placesCall, jobCall, streamCall, enrich>>

InitMail ==
  /\ AppIdle
  /\ placesCall = NoPlacesCall /\ jobCall = NoJobCall /\ streamCall = NoStreamCall
  /\ \E m \in 0..MaxRetries :
       mailCall = [pc |-> "called", MAX_RETRIES |-> m, attempt |-> 0, delay |-> 0,
                   results |-> <<>>, waits |-> <<>>, out |-> "none"]

NextMail ==
  \/ SendEmail
  \/ \E res \in SmtpErrors \cup {"ok"} : SendMailReturn(res)
  \/ BackoffReturn
SpecMail == InitMail /\ [][NextMail]_vars /\ WF_vars(NextMail)

(* ------------------------ places.js: findBusinesses ------------------- *)
MaxWanted == 3        \* largest max of a call
MaxPlacesPages == 2   \* pages the Business Source has for a query
MaxPlacesItems == 2   \* places on one page

(* name and website of the places the Business Source returns. *)
Places == [name : {"Acme", "ACME", "Bolt"}, website : {"", "acme.com", "Acme.com"}]
PlacesPages == UNION {[1..n -> Places] : n \in 0..MaxPlacesItems}

(* String.prototype.toLowerCase on the names and websites above. *)
lowerCase(str) ==
  CASE str \in {"Acme", "ACME"} -> "acme"
    [] str = "Bolt"             -> "bolt"
    [] str = "Acme.com"         -> "acme.com"
    [] OTHER                    -> str

(* A key without toLowerCase. *)
keyCaseSensitive(r) == IF r.website # "" THEN r.website ELSE r.name

(* (r.website || r.name).toLowerCase() *)
key(r) == lowerCase(IF r.website # "" THEN r.website ELSE r.name)

(* for (const it of items) { out.push(...); if (out.length >= max) break; } *)
RECURSIVE pushUpTo(_, _, _)
pushUpTo(out, items, max) ==
  IF items = <<>> THEN out
  ELSE IF Len(out) + 1 >= max THEN Append(out, Head(items))
  ELSE pushUpTo(Append(out, Head(items)), Tail(items), max)

(* The de-dup loop over out with the set seen. *)
RECURSIVE dedupe(_, _, _)
dedupe(out, seen, deduped) ==
  IF out = <<>> THEN deduped
  ELSE IF key(Head(out)) \in seen THEN dedupe(Tail(out), seen, deduped)
  ELSE dedupe(Tail(out), seen \cup {key(Head(out))}, Append(deduped, Head(out)))

(* The while check of findBusinesses: fetch a page or de-dup and return. *)
FindLoop(c) ==
  IF Len(c.out) < c.max THEN [c EXCEPT !.pc = "fetching"]
  ELSE [c EXCEPT !.pc = "returned", !.result = dedupe(c.out, {}, <<>>)]

FindBusinesses ==
  /\ placesCall.pc = "called"
  /\ placesCall' = FindLoop(placesCall)
  /\ UNCHANGED <<SENT, saveTimer, sentFile, RESEND_ON_SHORTFALL, jobs, run, pool, conn,
                 quota, cleared, disk, rendering, poolCall,
                 mailCall, jobCall, streamCall, enrich>>

(* fetchBusinessesPage settles: it threw, or it returned items and a       *)
(* cursor (next: the cursor is not null).                                  *)
PlacesPageReturn(ok, items, next) ==
  /\ placesCall.pc = "fetching"
  /\ placesCall.fetches < MaxPlacesPages
  /\ next => placesCall.fetches + 1 < MaxPlacesPages
  /\ LET c == [placesCall EXCEPT !.fetches = @ + 1]
     IN  placesCall' =
           IF ~ok THEN [c EXCEPT !.pc = "threw"]
           ELSE IF items = <<>>
           THEN [c EXCEPT !.pc = "returned", !.result = dedupe(c.out, {}, <<>>)]
           ELSE LET d == [c EXCEPT !.source = @ \o items,
                                   !.out = pushUpTo(@, items, c.max)]
                IN  IF next THEN FindLoop(d)
                    ELSE [d EXCEPT !.pc = "returned", !.result = dedupe(d.out, {}, <<>>)]
  /\ UNCHANGED <<SENT, saveTimer, sentFile, RESEND_ON_SHORTFALL, jobs, run, pool, conn,
                 quota, cleared, disk, rendering, poolCall,
                 mailCall, jobCall, streamCall, enrich>>

InitPlaces ==
  /\ AppIdle
  /\ mailCall = NoMailCall /\ jobCall = NoJobCall /\ streamCall = NoStreamCall
  /\ \E max \in 0..MaxWanted :
       placesCall = [pc |-> "called", max |-> max, out |-> <<>>, source |-> <<>>,
                     fetches |-> 0, result |-> <<>>]

NextPlaces ==
  \/ FindBusinesses
  \/ \E ok \in BOOLEAN, items \in PlacesPages, next \in BOOLEAN :
       PlacesPageReturn(ok, items, next)
SpecPlaces == InitPlaces /\ [][NextPlaces]_vars

(* ------------------------- runner.js: leadStream ---------------------- *)
MaxQueries      == 3   \* primaryQuery and up to two fallbackQueries
MaxPerQuery     == 2   \* largest maxPagesPerQuery of a call
MaxTotal        == 3   \* largest maxTotalPages of a call
MaxStreamItems  == 2   \* businesses on one page

Null == "null"
Cursors == {Null, "c1", "c2"}
(* [primaryQuery, ...fallbackQueries] of the longest call, and the pages   *)
(* the Business Source may answer with.                                    *)
QueryNames ==
  [k \in 1..MaxQueries |-> IF k = 1 THEN "primary" ELSE "fallback" \o ToString(k - 1)]
StreamPages == {[k \in 1..n |-> "biz" \o ToString(k)] : n \in 0..MaxStreamItems}

(* The while check of one query: fetch its next page, or go on to the      *)
(* next query; after the last query the generator returns.                 *)
RECURSIVE ForQueries(_, _)
WhileLoop(c) ==
  IF c.pages < c.maxPagesPerQuery /\ c.totalPages < c.maxTotalPages
  THEN [c EXCEPT !.pc = "fetch",
                 !.log = Append(@, [query |-> c.queries[c.qi], cursor |-> c.cursor,
                                    reply |-> "pending", next |-> Null])]
  ELSE ForQueries(c, c.qi + 1)
ForQueries(c, i) ==
  IF i > Len(c.queries) THEN [c EXCEPT !.pc = "done", !.qi = i]
  ELSE WhileLoop([c EXCEPT !.qi = i, !.cursor = Null, !.pages = 0])

(* A page counts against the per-query budget only. *)
AfterYieldsPerQueryOnly(c) ==
  LET d == [c EXCEPT !.cursor = c.nextCursor, !.pages = @ + 1]
  IN  IF d.cursor = Null THEN ForQueries(d, d.qi + 1)
      ELSE IF d.perPageDelayMs > 0 THEN [d EXCEPT !.pc = "delay"]
      ELSE WhileLoop(d)

(* After the last yield of a page: cursor = nextCursor; pages++;           *)
(* totalPages++; if (!cursor) break; the delay.                            *)
AfterYields(c) ==
  LET d == [c EXCEPT !.cursor = c.nextCursor, !.pages = @ + 1, !.totalPages = @ + 1]
  IN  IF d.cursor = Null THEN ForQueries(d, d.qi + 1)
      ELSE IF d.perPageDelayMs > 0 THEN [d EXCEPT !.pc = "delay"]
      ELSE WhileLoop(d)

(* for (const biz of items) yield { ...biz, _q: q, _page: pages } *)
YieldNext(c) ==
  IF c.items = <<>> THEN AfterYields(c)
  ELSE [c EXCEPT !.pc = "yielded", !.items = Tail(@),
                 !.out = Append(@, [biz |-> Head(c.items), _q |-> c.queries[c.qi],
                                    _page |-> c.pages])]

NewStream(queries, perQuery, total, delay) ==
  [pc |-> "start", queries |-> queries, qi |-> 0, cursor |-> Null, pages |-> 0,
   totalPages |-> 0, maxPagesPerQuery |-> perQuery, maxTotalPages |-> total,
   perPageDelayMs |-> delay, items |-> <<>>, nextCursor |-> Null,
   log |-> <<>>, out |-> <<>>]

(* The consumer asks for the next business: the generator starts, or       *)
(* resumes after its last yield.                                           *)
GeneratorNext(c) == IF c.pc = "start" THEN ForQueries(c, 1) ELSE YieldNext(c)

StreamNext ==
  /\ jobCall = NoJobCall
  /\ streamCall.pc \in {"start", "yielded"}
  /\ streamCall' = GeneratorNext(streamCall)
  /\ UNCHANGED <<SENT, saveTimer, sentFile, RESEND_ON_SHORTFALL, jobs, run, pool, conn,
                 quota, cleared, disk, rendering, poolCall,
                 mailCall, placesCall, jobCall, enrich>>

(* fetchBusinessesPage settles: rejected (.catch(() => null)), or a pack   *)
(* with items and nextCursor.                                              *)
StreamPageReturn(ok, items, next) ==
  /\ streamCall.pc = "fetch"
  /\ LET got == IF ok THEN items ELSE <<>>
         c == [streamCall EXCEPT
                 !.items = got,
                 !.nextCursor = IF ok THEN next ELSE Null,
                 !.log[Len(streamCall.log)].reply =
                    IF ~ok THEN "failed" ELSE IF items = <<>> THEN "empty" ELSE "items",
                 !.log[Len(streamCall.log)].next = IF ok THEN next ELSE Null]
     IN  streamCall' = IF got = <<>> THEN ForQueries(c, c.qi + 1) ELSE YieldNext(c)
  /\ UNCHANGED <<SENT, saveTimer, sentFile, RESEND_ON_SHORTFALL, jobs, run, pool, conn,
                 quota, cleared, disk, rendering, poolCall,
                 mailCall, placesCall, jobCall, enrich>>

(* The perPageDelayMs timer fires. *)
StreamDelayReturn ==
  /\ streamCall.pc = "delay"
  /\ streamCall' = WhileLoop(streamCall)
  /\ UNCHANGED <<SENT, saveTimer, sentFile, RESEND_ON_SHORTFALL, jobs, run, pool, conn,
                 quota, cleared, disk, rendering, poolCall,
                 mailCall, placesCall, jobCall, enrich>>

StreamSettles ==
  \/ \E ok \in BOOLEAN, items \in StreamPages, next \in Cursors :
       StreamPageReturn(ok, items, next)
  \/ StreamDelayReturn

InitLeadStream ==
  /\ AppIdle
  /\ mailCall = NoMailCall /\ placesCall = NoPlacesCall /\ jobCall = NoJobCall
  /\ \E n \in 1..MaxQueries, perQuery \in 0..MaxPerQuery, total \in 0..MaxTotal,
        delay \in {0, 400} :
       streamCall = NewStream(SubSeq(QueryNames, 1, n), perQuery, total, delay)

NextLeadStream == StreamNext \/ StreamSettles
SpecLeadStream == InitLeadStream /\ [][NextLeadStream]_vars /\ WF_vars(NextLeadStream)

(* --------------------------- runner.js: runJob ------------------------ *)
MaxGoal      == 2   \* largest want of a call
MaxInspected == 3   \* largest MAX_INSPECTED of the process

NewRunJob(want, maxInspected) ==
  [pc |-> "loop", want |-> want, maxInspected |-> maxInspected,
   found |-> 0, withEmail |-> 0, sent |-> 0, skipped |-> 0, inspected |-> 0,
   doneBecause |-> "none"]

(* A goal check that lets one more business through. *)
GoalReachedLate(c) == c.sent > c.want

(* if (sent >= want) break; *)
GoalReached(c) == c.sent >= c.want

(* const doneBecause = ...; return { found, withEmail, sent, skipped,      *)
(* inspected, doneBecause }                                                *)
JobReturn(c) ==
  [c EXCEPT !.pc = "returned",
            !.doneBecause = IF c.sent >= c.want THEN "goal_reached"
                            ELSE "exhausted_results"]

(* for await asks leadStream for the next business. *)
JobNext ==
  /\ jobCall.pc = "loop"
  /\ streamCall.pc \in {"start", "yielded"}
  /\ streamCall' = GeneratorNext(streamCall)
  /\ jobCall' = [jobCall EXCEPT !.pc = "wait"]
  /\ UNCHANGED <<SENT, saveTimer, sentFile, RESEND_ON_SHORTFALL, jobs, run, pool, conn,
                 quota, cleared, disk, rendering, poolCall,
                 mailCall, placesCall, enrich>>

(* leadStream yielded a business or returned: the head of the loop body,   *)
(* where a break also ends the generator.                                  *)
JobTake ==
  /\ jobCall.pc = "wait"
  /\ streamCall.pc \in {"yielded", "done"}
  /\ IF streamCall.pc = "done"
     THEN jobCall' = JobReturn(jobCall) /\ UNCHANGED streamCall
     ELSE IF GoalReached(jobCall) \/ jobCall.inspected >= jobCall.maxInspected
     THEN /\ jobCall' = JobReturn(jobCall)
          /\ streamCall' = [streamCall EXCEPT !.pc = "done"]
     ELSE /\ jobCall' = [jobCall EXCEPT !.inspected = @ + 1, !.found = @ + 1,
                                        !.pc = "find"]
          /\ UNCHANGED streamCall
  /\ UNCHANGED <<SENT, saveTimer, sentFile, RESEND_ON_SHORTFALL, jobs, run, pool, conn,
                 quota, cleared, disk, rendering, poolCall,
                 mailCall, placesCall, enrich>>

(* findEmailOnSite settles: "threw" (.catch(() => null)), "null", or an    *)
(* address.                                                                *)
JobFindReturn(res) ==
  /\ jobCall.pc = "find"
  /\ jobCall' = IF res \in {"threw", "null"}
                THEN [jobCall EXCEPT !.skipped = @ + 1, !.pc = "loop"]
                ELSE [jobCall EXCEPT !.withEmail = @ + 1, !.pc = "send"]
  /\ UNCHANGED <<SENT, saveTimer, sentFile, RESEND_ON_SHORTFALL, jobs, run, pool, conn,
                 quota, cleared, disk, rendering, poolCall,
                 mailCall, placesCall, streamCall, enrich>>

(* sendEmail settles: "threw" (.catch(() => false)), "false" or "true". *)
JobSendReturn(res) ==
  /\ jobCall.pc = "send"
  /\ jobCall' = IF res = "true"
                THEN [jobCall EXCEPT !.sent = @ + 1, !.pc = "loop"]
                ELSE [jobCall EXCEPT !.skipped = @ + 1, !.pc = "loop"]
  /\ UNCHANGED <<SENT, saveTimer, sentFile, RESEND_ON_SHORTFALL, jobs, run, pool, conn,
                 quota, cleared, disk, rendering, poolCall,
                 mailCall, placesCall, streamCall, enrich>>

InitRunJob ==
  /\ AppIdle
  /\ mailCall = NoMailCall /\ placesCall = NoPlacesCall
  /\ \E want \in -1..MaxGoal, maxInspected \in 0..MaxInspected :
       jobCall = NewRunJob(want, maxInspected)
  /\ \E n \in 1..2 :
       streamCall = NewStream(SubSeq(QueryNames, 1, n), MaxPerQuery, MaxTotal, 400)

NextRunJob ==
  \/ JobNext
  \/ JobTake
  \/ \E res \in {"threw", "null", "b@y.com"} : JobFindReturn(res)
  \/ \E res \in {"threw", "false", "true"} : JobSendReturn(res)
  \/ \E ok \in BOOLEAN, items \in StreamPages, next \in Cursors :
       StreamPageReturn(ok, items, next)
  \/ StreamDelayReturn
SpecRunJob == InitRunJob /\ [][NextRunJob]_vars

(* ---------------------- enrich.js: findEmailOnSite -------------------- *)
MAX_PAGES == 12
FETCH_SOCIALS == TRUE

(* The website strings a call is given, and what new URL() makes of them. *)
Sites == {"acme.com", "https://acme.com/about", ""}

normUrl(u) ==
  CASE u = ""                       -> "null"
    [] u = "acme.com"               -> "https://acme.com/"
    [] u = "https://acme.com/about" -> "https://acme.com/about"

hostname(url) == <<"acme", ".", "com">>

absoluteUrl(base, href) ==
  IF href = "https://facebook.com/acme" THEN href ELSE "https://acme.com" \o href

(* The anchors a homepage may hold, in document order. *)
Hrefs == <<"/contact", "/privacy", "/brochure.pdf", "https://facebook.com/acme">>
LinkLists == {SelectSeq(Hrefs, LAMBDA h : h \in S) : S \in SUBSET {Hrefs[k] : k \in DOMAIN Hrefs}}

Abs(base, hrefs) == [k \in DOMAIN hrefs |-> absoluteUrl(base, hrefs[k])]

pickLikelyPages(baseUrl, links) ==
  Slice(Abs(baseUrl, SelectSeq(links, LAMBDA h : h \in {"/contact", "/privacy"})), 8)
pickDocLinks(baseUrl, links) ==
  Slice(Abs(baseUrl, SelectSeq(links, LAMBDA h : h \in {"/brochure.pdf", "/privacy"})), 6)
socialLinks(baseUrl, links) ==
  Slice(SelectSeq(Abs(baseUrl, links), LAMBDA u : u \in {"https://facebook.com/acme"}), 6)
SearchSlugs == <<"acme", "acmeinc", "acmeco", "acmellc">>
toFacebookAbout(urlOrSlug) ==
  IF \E k \in DOMAIN SearchSlugs : SearchSlugs[k] = urlOrSlug
  THEN "https://mbasic.facebook.com/" \o urlOrSlug \o "/about"
  ELSE "https://mbasic.facebook.com/acme/about"

(* The fixed URLs of the well-known, sitemap and name-search tiers. *)
Urls == [security |-> "https://acme.com/.well-known/security.txt",
         humans   |-> "https://acme.com/humans.txt",
         robots   |-> "https://acme.com/robots.txt",
         sitemap  |-> "https://acme.com/sitemap.xml",
         search   |-> "https://mbasic.facebook.com/search/?search=Acme"]

(* What a fetch may come back with: a thrown error, a non-ok status, or a   *)
(* page.  Of a page the model keeps what the extractors take from it:      *)
(* plain  addresses matched by extractEmails, JSON-LD and extractObfuscated *)
(* cf     strings decoded from data-cfemail spans                          *)
(* links  anchors, lines Sitemap: lines, locs <loc> entries, slugs         *)
PlainLists == {<<>>, <<InfoUpper>>, <<JaneGmail, JaneAcme>>}
CfLists    == {<<>>, <<JunkA>>}
Pages ==
  LET Failures == {[status |-> st, plain |-> <<>>, cf |-> <<>>, links |-> <<>>] :
                     st \in {"throw", "notok"}}
      Ok(plains, cfs, linkss) ==
        [status : {"ok"}, plain : plains, cf : cfs, links : linkss]
  IN  [home    |-> Failures \cup Ok(PlainLists, CfLists, LinkLists),
       sub     |-> Failures \cup Ok(PlainLists, CfLists, {<<>>}),
       robots  |-> Failures \cup Ok({<<>>}, {<<>>}, {<<>>, <<Urls.sitemap>>}),
       sitemap |-> Failures \cup Ok({<<>>}, {<<>>},
                     {<<>>, <<"https://acme.com/contact", "https://acme.com/team">>}),
       search  |-> Failures \cup Ok({<<>>}, {<<>>}, {<<>>, <<"acme">>})]

RECURSIVE addAll(_, _)
addAll(seen, arr) ==
  IF arr = <<>> THEN seen
  ELSE addAll(IF \E k \in DOMAIN seen : seen[k] = Head(arr) THEN seen
              ELSE Append(seen, Head(arr)), Tail(arr))

uniqLower(arr) == addAll(<<>>, [k \in DOMAIN arr |-> lower(arr[k])])

(* The four extractors of the homepage, likely pages and sitemap pages, *)
(* and the two of the other tiers.                                      *)
Extract4(r) == addAll(addAll(<<>>, r.plain), r.cf)
Extract2(r) == addAll(<<>>, r.plain)

Fetch(c, pc, url) == [c EXCEPT !.pc = pc, !.url = url, !.log = Append(@, url)]

(* uniqLower, bestEmailForDomain, sessionCache.set and the return. *)
ScoreAndReturn(c) ==
  LET uniq == uniqLower(c.seen)
      best == bestEmailForDomain(uniq, c.siteHost)
  IN  IF best = Thrown THEN [c EXCEPT !.pc = "threw", !.out = Thrown]
      ELSE [c EXCEPT !.pc = "done", !.out = best, !.cached = TRUE]

NextSlug(c) ==
  IF c.todo = <<>> THEN ScoreAndReturn(c)
  ELSE Fetch([c EXCEPT !.todo = Tail(@)], "searchabout", toFacebookAbout(Head(c.todo)))

ToSearch(c) ==
  IF FETCH_SOCIALS /\ c.seen = <<>> /\ c.name THEN Fetch(c, "search", Urls.search)
  ELSE ScoreAndReturn(c)

NextMap(c) ==
  IF c.maps = <<>> \/ c.fetched > MAX_PAGES THEN ToSearch(c)
  ELSE Fetch([c EXCEPT !.maps = Tail(@)], "sitemap", Head(c.maps))

RECURSIVE NextLoc(_)
NextLoc(c) ==
  IF c.todo = <<>> THEN (IF c.seen # <<>> THEN ToSearch(c) ELSE NextMap(c))
  ELSE IF Head(c.todo) \in c.visited THEN NextLoc([c EXCEPT !.todo = Tail(@)])
  ELSE IF c.fetched > MAX_PAGES THEN NextMap([c EXCEPT !.fetched = @ + 1])
  ELSE Fetch([c EXCEPT !.todo = Tail(@), !.fetched = @ + 1], "smpage", Head(c.todo))

NextDiscover(c) ==
  IF c.todo = <<>> THEN NextMap([c EXCEPT !.fetched = 0])
  ELSE Fetch([c EXCEPT !.todo = Tail(@)], "discover", Head(c.todo))

ToSitemaps(c) ==
  IF c.seen = <<>> THEN NextDiscover([c EXCEPT !.todo = <<Urls.robots, Urls.sitemap>>, !.maps = <<>>])
  ELSE ToSearch(c)

NextWellKnown(c) ==
  IF c.todo = <<>> THEN ToSitemaps(c)
  ELSE Fetch([c EXCEPT !.todo = Tail(@)], "wellknown", Head(c.todo))

ToWellKnown(c) ==
  IF c.seen = <<>> THEN NextWellKnown([c EXCEPT !.todo = <<Urls.security, Urls.humans>>])
  ELSE ToSitemaps(c)

NextSocial(c) ==
  IF c.todo = <<>> \/ Cardinality(c.visited) > MAX_PAGES THEN ToWellKnown(c)
  ELSE Fetch([c EXCEPT !.todo = Tail(@)], "social", Head(c.todo))

ToSocialLoop(c) ==
  IF c.seen = <<>> THEN NextSocial([c EXCEPT !.todo = socialLinks(c.siteUrl, c.links)])
  ELSE ToWellKnown(c)

NextFb(c) ==
  IF c.todo = <<>> THEN ToSocialLoop(c)
  ELSE Fetch([c EXCEPT !.todo = Tail(@)], "fbabout", toFacebookAbout(Head(c.todo)))

ToSocials(c) ==
  IF FETCH_SOCIALS /\ c.seen = <<>>
  THEN NextFb([c EXCEPT !.todo = socialLinks(c.siteUrl, c.links)])
  ELSE ToWellKnown(c)

NextDoc(c) ==
  IF c.todo = <<>> \/ Cardinality(c.visited) > MAX_PAGES THEN ToSocials(c)
  ELSE Fetch([c EXCEPT !.todo = Tail(@)], "doc", Head(c.todo))

ToDocs(c) ==
  IF c.seen = <<>> THEN NextDoc([c EXCEPT !.todo = pickDocLinks(c.siteUrl, c.links)])
  ELSE ToSocials(c)

(* The loop over the likely pages starts whatever the homepage yielded. *)
NextLikely(c) ==
  IF c.todo = <<>> \/ Cardinality(c.visited) > MAX_PAGES THEN ToDocs(c)
  ELSE Fetch([c EXCEPT !.todo = Tail(@)], "likely", Head(c.todo))

(* The no-site branch: a name search whose result is not cached. *)
NextNoSiteSlug(c) ==
  IF c.todo = <<>> THEN [c EXCEPT !.pc = "done", !.out = RetNull]
  ELSE Fetch([c EXCEPT !.todo = Tail(@)], "nositeabout", toFacebookAbout(Head(c.todo)))

(* A call's step ends at its next await or at its return, where the cache *)
(* is written.                                                             *)
Resume(i, c) ==
  /\ calls' = [calls EXCEPT ![i] = c]
  /\ sessionCache' = IF c.pc = "done" /\ c.cached
                     THEN [sessionCache EXCEPT ![c.siteHost] = c.out]
                     ELSE sessionCache
  /\ UNCHANGED <<server, scorer>>

(* findEmailOnSite(site, hints) up to its first await. *)
Call(i, site, name) ==
  /\ calls[i].pc = "idle"
  /\ LET siteUrl == normUrl(site)
         c == [calls[i] EXCEPT !.site = site, !.name = name, !.siteUrl = siteUrl]
     IN  IF siteUrl = "null"
         THEN IF FETCH_SOCIALS /\ name THEN Resume(i, Fetch(c, "nositesearch", Urls.search))
              ELSE Resume(i, [c EXCEPT !.pc = "done", !.out = RetNull])
         ELSE LET siteHost == hostname(siteUrl)
                  d == [c EXCEPT !.siteHost = siteHost]
              IN  IF sessionCache[siteHost] # Absent
                  THEN Resume(i, [d EXCEPT !.pc = "done", !.out = sessionCache[siteHost]])
                  ELSE Resume(i, Fetch(d, "home", siteUrl))

HomeReturn(i, r) ==
  /\ calls[i].pc = "home"
  /\ LET c == calls[i]
     IN  IF r.status # "ok" THEN Resume(i, ToWellKnown(c))
         ELSE Resume(i, NextLikely([c EXCEPT !.visited = @ \cup {c.url},
                                             !.seen = addAll(@, Extract4(r)),
                                             !.links = r.links,
                                             !.todo = pickLikelyPages(c.url, r.links)]))

LikelyReturn(i, r) ==
  /\ calls[i].pc = "likely"
  /\ LET c == calls[i]
         d == [c EXCEPT !.visited = @ \cup {c.url}, !.seen = addAll(@, Extract4(r))]
     IN  IF r.status # "ok" THEN Resume(i, NextLikely(c))
         ELSE IF d.seen # <<>> THEN Resume(i, ToDocs(d))
         ELSE Resume(i, NextLikely(d))

DocReturn(i, r) ==
  /\ calls[i].pc = "doc"
  /\ LET c == calls[i]
         d == [c EXCEPT !.visited = @ \cup {c.url}, !.seen = addAll(@, Extract2(r))]
     IN  IF r.status # "ok" THEN Resume(i, NextDoc(c))
         ELSE IF d.seen # <<>> THEN Resume(i, ToSocials(d))
         ELSE Resume(i, NextDoc(d))

(* emailsFromFacebook(fb) of the socials tier. *)
FbAboutReturn(i, r) ==
  /\ calls[i].pc = "fbabout"
  /\ LET c == calls[i]
         fbEmails == IF r.status = "ok" THEN uniqLower(Extract2(r)) ELSE <<>>
         d == [c EXCEPT !.seen = addAll(@, fbEmails)]
     IN  IF d.seen # <<>> THEN Resume(i, ToSocialLoop(d))
         ELSE Resume(i, NextFb(d))

SocialReturn(i, r) ==
  /\ calls[i].pc = "social"
  /\ LET c == calls[i]
         d == [c EXCEPT !.visited = @ \cup {c.url}, !.seen = addAll(@, Extract2(r))]
     IN  IF r.status # "ok" THEN Resume(i, NextSocial(c))
         ELSE IF d.seen # <<>> THEN Resume(i, ToWellKnown(d))
         ELSE Resume(i, NextSocial(d))

(* tryWellKnown: the first file that is ok and holds an address ends it. *)
WellKnownReturn(i, r) ==
  /\ calls[i].pc = "wellknown"
  /\ LET c == calls[i]
         emails == IF r.status = "ok" THEN r.plain ELSE <<>>
     IN  IF emails # <<>> THEN Resume(i, ToSitemaps([c EXCEPT !.seen = addAll(@, emails)]))
         ELSE Resume(i, NextWellKnown(c))

(* discoverSitemaps: /robots.txt, then /sitemap.xml. *)
DiscoverReturn(i, r) ==
  /\ calls[i].pc = "discover"
  /\ LET c == calls[i]
         urls == IF r.status # "ok" THEN <<>>
                 ELSE IF c.url = Urls.robots THEN r.links ELSE <<c.url>>
     IN  Resume(i, NextDiscover([c EXCEPT !.maps = addAll(@, urls)]))

(* The fetch of a sitemap is inside the tier's try only: a throw ends the tier. *)
SitemapReturn(i, r) ==
  /\ calls[i].pc = "sitemap"
  /\ LET c == calls[i]
     IN  CASE r.status = "throw" -> Resume(i, ToSearch(c))
           [] r.status = "notok" -> Resume(i, NextMap(c))
           [] r.status = "ok"    -> Resume(i, NextLoc([c EXCEPT !.todo = Slice(r.links, 25)]))

SitemapPageReturn(i, r) ==
  /\ calls[i].pc = "smpage"
  /\ LET c == calls[i]
         d == [c EXCEPT !.visited = @ \cup {c.url}, !.seen = addAll(@, Extract4(r))]
     IN  IF r.status # "ok" THEN Resume(i, NextLoc(c))
         ELSE IF d.seen # <<>> THEN Resume(i, ToSearch(d))
         ELSE Resume(i, NextLoc(d))

(* facebookSearchSlugs of the last tier. *)
SearchReturn(i, r) ==
  /\ calls[i].pc = "search"
  /\ LET slugs == IF r.status = "ok" THEN Slice(r.links, 3) ELSE <<>>
     IN  Resume(i, NextSlug([calls[i] EXCEPT !.todo = slugs]))

SearchAboutReturn(i, r) ==
  /\ calls[i].pc = "searchabout"
  /\ LET c == calls[i]
         emails == IF r.status = "ok" THEN uniqLower(Extract2(r)) ELSE <<>>
         d == [c EXCEPT !.seen = addAll(@, emails)]
     IN  IF d.seen # <<>> THEN Resume(i, ScoreAndReturn(d))
         ELSE Resume(i, NextSlug(d))

NoSiteSearchReturn(i, r) ==
  /\ calls[i].pc = "nositesearch"
  /\ LET slugs == IF r.status = "ok" THEN Slice(r.links, 3) ELSE <<>>
     IN  Resume(i, NextNoSiteSlug([calls[i] EXCEPT !.todo = slugs]))

NoSiteAboutReturn(i, r) ==
  /\ calls[i].pc = "nositeabout"
  /\ LET c == calls[i]
         emails == IF r.status = "ok" THEN uniqLower(Extract2(r)) ELSE <<>>
     IN  IF emails # <<>> THEN Resume(i, [c EXCEPT !.pc = "done", !.out = Ret(emails[1])])
         ELSE Resume(i, NextNoSiteSlug(c))

(* One findEmailOnSite call: the other slots are never used. *)
InitCrawl ==
  /\ ServerIdle
  /\ sessionCache = EmptyCache
  /\ calls = [i \in CallIds |-> IF i = 1 THEN NoCall ELSE [NoCall EXCEPT !.pc = "unused"]]
  /\ scorer = NoScorer
  /\ rendering = NoRender
  /\ poolCall = NoPoolCall
  /\ LibIdle

NextCrawl ==
  \E i \in CallIds :
    \/ \E site \in Sites, name \in BOOLEAN : Call(i, site, name)
    \/ \E r \in Pages.home : HomeReturn(i, r)
    \/ \E r \in Pages.sub : LikelyReturn(i, r)
    \/ \E r \in Pages.sub : DocReturn(i, r)
    \/ \E r \in Pages.sub : FbAboutReturn(i, r)
    \/ \E r \in Pages.sub : SocialReturn(i, r)
    \/ \E r \in Pages.sub : WellKnownReturn(i, r)
    \/ \E r \in Pages.robots : DiscoverReturn(i, r)
    \/ \E r \in Pages.sitemap : SitemapReturn(i, r)
    \/ \E r \in Pages.sub : SitemapPageReturn(i, r)
    \/ \E r \in Pages.search : SearchReturn(i, r)
    \/ \E r \in Pages.sub : SearchAboutReturn(i, r)
    \/ \E r \in Pages.search : NoSiteSearchReturn(i, r)
    \/ \E r \in Pages.sub : NoSiteAboutReturn(i, r)

SpecCrawl == InitCrawl /\ [][NextCrawl]_vars

(* Calls of concurrent workers for websites whose homepage answers with an *)
(* address and no links: each call is one fetch long.                      *)
AddressPages == {r \in Pages.home : r.status = "ok" /\ r.plain # <<>> /\ r.links = <<>>}

InitOverlap ==
  /\ ServerIdle
  /\ sessionCache = EmptyCache
  /\ calls = NoCalls
  /\ scorer = NoScorer
  /\ rendering = NoRender
  /\ poolCall = NoPoolCall
  /\ LibIdle

NextOverlap ==
  \E i \in CallIds :
    \/ \E site \in Sites \ {""}, name \in BOOLEAN : Call(i, site, name)
    \/ \E r \in AddressPages : HomeReturn(i, r)

SpecOverlap == InitOverlap /\ [][NextOverlap]_vars

(* The last two tiers of a call: a site whose homepage and well-known     *)
(* files fail and whose robots.txt names two sitemap files, one with       *)
(* ManyLocs or FewLocs pages, the other with FewLocs other pages; and a     *)
(* search by name that finds up to four profiles.                          *)
ManyLocs == 26
FewLocs == 8
NotOk == [status |-> "notok", plain |-> <<>>, cf |-> <<>>, links |-> <<>>]
OkPage(plain, links) == [status |-> "ok", plain |-> plain, cf |-> <<>>, links |-> links]
MapA == "https://acme.com/sitemap-a.xml"
MapB == "https://acme.com/sitemap-b.xml"
Locs(dir, n) == [k \in 1..n |-> "https://acme.com/" \o dir \o "/" \o ToString(k)]
SitemapFiles(url) ==
  IF url = MapA THEN {OkPage(<<>>, Locs("a", ManyLocs)), OkPage(<<>>, Locs("a", FewLocs))}
  ELSE IF url = MapB THEN {NotOk, OkPage(<<>>, Locs("b", FewLocs))}
  ELSE {NotOk}
SitemapPagesOf == {NotOk, OkPage(<<>>, <<>>), OkPage(<<InfoAcme>>, <<>>)}

SearchResults == {NotOk, OkPage(<<>>, <<>>), OkPage(<<>>, SearchSlugs)}

NextSitemap ==
  \E i \in CallIds :
    \/ \E name \in BOOLEAN : Call(i, "acme.com", name)
    \/ HomeReturn(i, NotOk)
    \/ WellKnownReturn(i, NotOk)
    \/ \E r \in (IF calls[i].url = Urls.robots
                  THEN {NotOk, OkPage(<<>>, <<MapA, MapB>>)} ELSE {NotOk}) :
         DiscoverReturn(i, r)
    \/ \E r \in SitemapFiles(calls[i].url) : SitemapReturn(i, r)
    \/ \E r \in SitemapPagesOf : SitemapPageReturn(i, r)
    \/ \E r \in SearchResults : SearchReturn(i, r)
    \/ \E r \in SitemapPagesOf : SearchAboutReturn(i, r)
SpecSitemap == InitCrawl /\ [][NextSitemap]_vars

(* ------------------------------ properties ---------------------------- *)
TaskIds(p) == {t.id : t \in p.tasks}
Sending(j) == {t \in pool[j].tasks : t.at = "send"}
RowsFor(j, ekey) == {i \in DOMAIN run[j].rows : toLowerCase(run[j].rows[i].email) = ekey}
SentRowsFor(j, ekey) == {i \in RowsFor(j, ekey) : run[j].rows[i].status = "sent"}

(* Job j starts a task that passes the check at its head. *)
TaskStarted(j) == ~(TaskIds(pool'[j]) \subseteq TaskIds(pool[j]))

(* Job j begins a fetchBusinessesPage call. *)
FetchBegun(j) ==
  /\ run'[j].pc = "fetch"
  /\ \/ run[j].pc # "fetch"
     \/ <<run'[j].pass, run'[j].area, run'[j].query, run'[j].pageNo>>
          # <<run[j].pass, run[j].area, run[j].query, run[j].pageNo>>

(* Job j invokes sendEmail for task t. *)
SendInvoked(j, t) == t \in pool'[j].tasks /\ t.at = "send" /\ t \notin pool[j].tasks

(* C1: for a run with targetCap >= 1, stats.sent never exceeds              *)
(* targetCap + (CONCURRENCY - 1), in the primary and in the fallback pass.  *)
C1_SentWithinSoftCap ==
  \A j \in JobIds :
    Registered(j) /\ run[j].targetCap >= 1
      => jobs[j].stats.sent <= run[j].targetCap + (CONCURRENCY - 1)

(* A run whose sends overshoot the cap by all of CONCURRENCY - 1. *)
C1_Witness ==
  \E j \in JobIds :
    /\ Registered(j) /\ run[j].targetCap >= 1
    /\ jobs[j].stats.sent = run[j].targetCap + (CONCURRENCY - 1)

(* C2 as stated: an address that is in the ledger when a run starts is     *)
(* never passed to the mail sender during that run, unless the run was      *)
(* submitted with ignorePrevious.                                           *)
C2_NeverSentAgain ==
  \A j \in JobIds : \A t \in Sending(j) :
    ~run[j].IGNORE_PREV => toLowerCase(t.email) \notin run[j].sentAtStart

(* C2 as the code has it: the primary pass of a run without ignorePrevious  *)
(* never passes to the mail sender an address that was in the ledger when   *)
(* the run started, as long as /api/dedupe/clear has not emptied the        *)
(* ledger; the fallback pass may.                                           *)
C2_PrimaryNeverSendsLedgered ==
  \A j \in JobIds : \A t \in Sending(j) :
    ~run[j].IGNORE_PREV /\ run[j].pass = "primary" /\ ~cleared
      => toLowerCase(t.email) \notin run[j].sentAtStart

(* Two businesses with websites were started in the primary pass of a run   *)
(* without ignorePrevious; the crawl of one returned an address of the      *)
(* ledger and the task was skipped without a log line and without a send.   *)
C2_Witness ==
  \E j \in JobIds :
    /\ ~run[j].IGNORE_PREV /\ run[j].pass = "primary" /\ ~cleared
    /\ run[j].sentAtStart # {}
    /\ Cardinality(run[j].seenInRunSites) = 2
    /\ run[j].seenInRunEmails = {}
    /\ jobs[j].stats = [found |-> 2, withEmail |-> 0, sent |-> 0, skipped |-> 1]
    /\ Len(jobs[j].log) = 2
    /\ \E t \in pool[j].tasks : t.at = "crawl"

(* C3: within one run the mail sender is invoked at most once per           *)
(* lowercased address: every invocation is in flight or has left one row.   *)
C3_OncePerAddress ==
  \A j \in JobIds : \A ekey \in LowerEmails :
    Cardinality(RowsFor(j, ekey))
      + Cardinality({t \in Sending(j) : toLowerCase(t.email) = ekey}) <= 1

(* With ignorePrevious set, two businesses with websites were started, one  *)
(* is being sent to and the other was skipped without a log line: its crawl *)
(* returned the address of the first.                                       *)
C3_Witness ==
  \E j \in JobIds :
    /\ run[j].IGNORE_PREV /\ run[j].pass = "primary"
    /\ Cardinality(run[j].seenInRunSites) = 2
    /\ jobs[j].stats = [found |-> 2, withEmail |-> 1, sent |-> 0, skipped |-> 1]
    /\ Len(jobs[j].log) = 2
    /\ Sending(j) # {}

(* C4: once job.cancelled is set, stats.found is not incremented, no task   *)
(* passes the check at its head and no page fetch is begun.                 *)
C4_NoStartAfterCancel ==
  [][\A j \in JobIds :
       jobs[j].cancelled
         => /\ jobs'[j].stats.found = jobs[j].stats.found
            /\ ~TaskStarted(j)
            /\ ~FetchBegun(j)]_vars

(* The first page arrived after the cancellation: its tasks were taken off  *)
(* the queue and none was counted.                                          *)
C4_Witness ==
  \E j \in JobIds :
    /\ jobs[j].cancelled
    /\ pool[j].k > 0
    /\ jobs[j].stats.found = 0
    /\ run[j].targetCap >= 1

(* C5: every registered job eventually reaches done = TRUE, when every     *)
(* await of the job settles.                                                *)
C5_EventuallyDone ==
  \A j \in JobIds : [](Registered(j) => <>jobs[j].done)

(* A cancelled job that sent an email, failed to write its CSV and is done. *)
C5_Witness ==
  \E j \in JobIds :
    /\ jobs[j].done /\ jobs[j].cancelled
    /\ jobs[j].stats.sent > 0
    /\ jobs[j].file = "null"

(* C6 as stated: whenever a row with status sent is appended, in either     *)
(* pass, the lowercased address is in the ledger and a save is scheduled    *)
(* by the end of the same step of the worker.                               *)
C6_SentIsLedgered ==
  [][\A j \in JobIds :
       Len(run'[j].rows) = Len(run[j].rows) + 1
         /\ run'[j].rows[Len(run'[j].rows)].status = "sent"
       => /\ toLowerCase(run'[j].rows[Len(run'[j].rows)].email) \in SENT'
          /\ saveTimer']_vars

(* C7 as stated: with the fallback disabled, no ignorePrevious and no       *)
(* clearing of the ledger, no address is being sent to by two tasks, or by  *)
(* a task after a successful send to it, and none has two sent rows.        *)
C7_OneSendPerAddress ==
  \A ekey \in LowerEmails :
    LET inFlight == UNION {{<<j, t.id>> : t \in {u \in Sending(j) : toLowerCase(u.email) = ekey}} :
                             j \in JobIds}
        sentRows == UNION {{<<j, i>> : i \in SentRowsFor(j, ekey)} : j \in JobIds}
    IN  ~RESEND_ON_SHORTFALL /\ ~cleared /\ (\A j \in JobIds : ~run[j].IGNORE_PREV)
          => Cardinality(inFlight) + Cardinality(sentRows) <= 1

(* C8 as stated: sendEmail is never invoked in a state in which             *)
(* stats.sent >= targetCap.                                                 *)
C8_NoSendAtCap ==
  [][\A j \in JobIds : \A t \in pool'[j].tasks :
       SendInvoked(j, t) => jobs[j].stats.sent < run[j].targetCap]_vars

(* C8 as the code has it: once stats.sent >= targetCap no task passes the   *)
(* check at its head (no crawl begins, stats.found stays) and no page is    *)
(* fetched; a task that passed the check earlier still invokes sendEmail.   *)
C8_NoNewTaskAtCap ==
  [][\A j \in JobIds :
       Registered(j) /\ jobs[j].stats.sent >= run[j].targetCap
         => /\ ~TaskStarted(j)
            /\ jobs'[j].stats.found = jobs[j].stats.found
            /\ ~FetchBegun(j)]_vars

(* The cap is reached with two of three businesses counted: the third task  *)
(* was taken off the queue and returned at its head.                        *)
C8_Witness ==
  \E j \in JobIds :
    /\ run[j].targetCap >= 1
    /\ jobs[j].stats.sent >= run[j].targetCap
    /\ run[j].pass = "primary"
    /\ pool[j].k = 3
    /\ jobs[j].stats.found = 2

(* C9: when a job becomes done, every observer attached to it has just     *)
(* received, as its last event, a done event with the job's file and        *)
(* stats, and these do not change afterwards.                               *)
C9_DoneReachesObservers ==
  [][\A j \in JobIds :
       /\ ~jobs[j].done /\ jobs'[j].done
            => \A o \in jobs[j]._senders :
                 /\ conn'[o].recv # <<>>
                 /\ conn'[o].recv[Len(conn'[o].recv)]
                      = [event |-> "done",
                         data |-> [file |-> jobs'[j].file, stats |-> jobs'[j].stats]]
       /\ jobs[j].done
            => /\ jobs'[j].done
               /\ jobs'[j].file = jobs[j].file
               /\ jobs'[j].stats = jobs[j].stats]_vars

(* A cancelled job became done while two observers were attached. *)
C9_Witness ==
  \E j \in JobIds :
    /\ jobs[j].done /\ jobs[j].cancelled
    /\ Cardinality(jobs[j]._senders) = 2
    /\ \A o \in jobs[j]._senders : conn[o].recv[Len(conn[o].recv)].event = "done"

IsLog(e) == e.event = "log"
LinesOf(recv) == [i \in 1..Len(SelectSeq(recv, IsLog)) |-> SelectSeq(recv, IsLog)[i].data]

(* The log lines an attached observer has received are the log of its job:  *)
(* every line once, in the order appended.                                  *)
LinesOnceInOrder ==
  \A o \in Observers :
    conn[o].open => LinesOf(conn[o].recv) = jobs[conn[o].job].log

(* An attach writes out the lines already in the log, in order, and then a  *)
(* stats snapshot.                                                          *)
AttachReplays ==
  \A o \in Observers :
    conn[o].job = 0 /\ conn'[o].job # 0
      => LET log == jobs[conn'[o].job].log
             recv == conn'[o].recv
         IN  /\ Len(recv) > Len(log)
             /\ \A i \in 1..Len(log) : recv[i] = [event |-> "log", data |-> log[i]]
             /\ recv[Len(log) + 1] = [event |-> "stats", data |-> jobs[conn'[o].job].stats]

(* A connection that is closed receives nothing. *)
NoneAfterDetach ==
  \A o \in Observers :
    conn[o].job # 0 /\ ~conn[o].open => conn'[o].recv = conn[o].recv

(* C10: an observer receives at attach the lines already in the log, in     *)
(* order, then a stats snapshot, then every line appended while it stays    *)
(* attached: each line once, in order, and none after it detaches.          *)
C10_ReplayThenLive ==
  [][LinesOnceInOrder' /\ AttachReplays /\ NoneAfterDetach]_vars

(* An observer that got two lines by replay and a line live afterwards. *)
C10_Witness ==
  \E o \in Observers :
    /\ conn[o].open
    /\ Len(conn[o].recv) >= 5
    /\ conn[o].recv[1].event = "log"
    /\ conn[o].recv[2].event = "log"
    /\ conn[o].recv[3].event = "stats"
    /\ conn[o].recv[4].event = "log"

RowsWith(j, status) == {i \in DOMAIN run[j].rows : run[j].rows[i].status = status}
RowAppended(j, status) ==
  /\ Len(run'[j].rows) = Len(run[j].rows) + 1
  /\ run'[j].rows[Len(run'[j].rows)].status = status
HandedToWriter(j) == run[j].pc \in {"csv", "done"}

(* C11: stats.sent is the number of rows with status sent, every            *)
(* send_failed row comes with exactly one skipped increment, and no row is  *)
(* appended once the rows are handed to the CSV writer; so the stats of a   *)
(* done job agree with the rows written.                                    *)
C11_StatsAgreeWithRows ==
  [][\A j \in JobIds :
       /\ jobs'[j].stats.sent = Cardinality(RowsWith(j, "sent"))'
       /\ jobs'[j].stats.skipped >= Cardinality(RowsWith(j, "send_failed"))'
       /\ RowAppended(j, "send_failed")
            => jobs'[j].stats.skipped = jobs[j].stats.skipped + 1
       /\ HandedToWriter(j) => run'[j].rows = run[j].rows]_vars

(* A done job whose file holds one sent and one send_failed row. *)
C11_Witness ==
  \E j \in JobIds :
    /\ jobs[j].done /\ jobs[j].file # "null"
    /\ Cardinality(RowsWith(j, "sent")) = 1
    /\ Cardinality(RowsWith(j, "send_failed")) = 1

(* C12: when a run that never entered the fallback pass is done,            *)
(* found = sent + skipped and withEmail is the number of rows; with cap 2   *)
(* and one page of three websites of which two resolve to new addresses     *)
(* and both sends succeed, the stats are {3, 2, 2, 1} with two sent rows.   *)
C12_PrimaryAccounting ==
  \A j \in JobIds :
    jobs[j].done /\ run[j].pass = "primary"
      => /\ jobs[j].stats.found = jobs[j].stats.sent + jobs[j].stats.skipped
         /\ jobs[j].stats.withEmail = Len(run[j].rows)
         /\ ( /\ run[j].targetCap = 2
              /\ Cardinality(run[j].seenInRunSites) = 3
              /\ Cardinality(RowsWith(j, "sent")) = 2
              /\ Len(run[j].rows) = 2 )
            => jobs[j].stats = [found |-> 3, withEmail |-> 2, sent |-> 2, skipped |-> 1]

(* The scenario: cap 2, three websites, two sent rows, the job done. *)
C12_Witness ==
  \E j \in JobIds :
    /\ jobs[j].done /\ run[j].pass = "primary"
    /\ run[j].targetCap = 2
    /\ Cardinality(run[j].seenInRunSites) = 3
    /\ Cardinality(RowsWith(j, "sent")) = 2
    /\ jobs[j].stats = [found |-> 3, withEmail |-> 2, sent |-> 2, skipped |-> 1]

InFlight(j) == {t \in pool[j].tasks : t.at \in {"crawl", "send"}}
NewlySending(j) == {t \in pool'[j].tasks : SendInvoked(j, t)}

(* C13: no counter of a job decreases in any step, and no increment is      *)
(* lost between interleaved workers: withEmail grows by the number of       *)
(* tasks that reach the send, sent by the sent rows appended, and in the    *)
(* primary pass every business counted in found is in flight or counted in  *)
(* sent or skipped.                                                         *)
C13_CountersMonotonicExact ==
  [][\A j \in JobIds :
       /\ \A f \in {"found", "withEmail", "sent", "skipped"} :
            jobs'[j].stats[f] >= jobs[j].stats[f]
       /\ jobs'[j].stats.withEmail
            = jobs[j].stats.withEmail + Cardinality(NewlySending(j))
       /\ jobs'[j].stats.sent
            = jobs[j].stats.sent + (IF RowAppended(j, "sent") THEN 1 ELSE 0)
       /\ run'[j].pass = "primary"
            => jobs'[j].stats.found
                 = jobs'[j].stats.sent + jobs'[j].stats.skipped
                   + Cardinality(InFlight(j))']_vars

(* Two workers in flight at once, one in its crawl and one in its send,     *)
(* with a third business already counted as skipped.                        *)
C13_Witness ==
  \E j \in JobIds :
    /\ run[j].pass = "primary"
    /\ jobs[j].stats.found = 3 /\ jobs[j].stats.skipped = 1
    /\ \E t, u \in pool[j].tasks : t.at = "crawl" /\ u.at = "send"

(* C14 as stated: once a job is done, no step changes its log, stats,       *)
(* cancelled flag or result file.                                           *)
C14_DoneIsImmutable ==
  [][\A j \in JobIds :
       jobs[j].done
         => /\ jobs'[j].log = jobs[j].log
            /\ jobs'[j].stats = jobs[j].stats
            /\ jobs'[j].cancelled = jobs[j].cancelled
            /\ jobs'[j].file = jobs[j].file]_vars

(* The score as the claim words it, in tenths: the webmail penalty applies *)
(* when the domain is one of the five providers.                           *)
StatedScore(e, host) ==
  LET domain == DomainOf(e)
      excess == IF length(e) > 24 THEN length(e) - 24 ELSE 0
  IN  (IF domain = host THEN 500 ELSE 0)
      + (IF endsWith(domain, <<".">> \o host) THEN 400 ELSE 0)
      + (IF lowerTok(e[1]) \in RoleLocals /\ e[2] = "@" THEN 80 ELSE 0)
      - (IF lower(domain) \in Webmails THEN 200 ELSE 0)
      - excess

(* C19 as stated: bestEmailForDomain returns null for an empty list and     *)
(* otherwise the first candidate among those whose score, by the formula    *)
(* of the claim, is maximal.                                                *)
C19_FirstOfMaximalScore ==
  scorer.out # Absent =>
    LET c == scorer.candidates
        h == lower(scorer.host)
    IN  IF c = <<>> THEN scorer.out = RetNull
        ELSE \E i \in DOMAIN c :
               /\ scorer.out = Ret(c[i])
               /\ \A k \in DOMAIN c : StatedScore(c[k], h) <= StatedScore(c[i], h)
               /\ \A k \in 1..(i - 1) : StatedScore(c[k], h) < StatedScore(c[i], h)

SameDomainRole(e, h) == DomainOf(e) = h /\ e[1] \in RoleLocals /\ e[2] = "@"
FreeWebmail(e) == lower(DomainOf(e)) \in Webmails
GenericLong(e, h) ==
  /\ ~(e[1] \in RoleLocals /\ e[2] = "@")
  /\ DomainOf(e) # h /\ ~endsWith(DomainOf(e), <<".">> \o h)
  /\ ~\E w \in Webmails : endsWith(lower(DomainOf(e)), w)
  /\ length(e) > 24

C15_SameResultOneFetch ==
  \A i, k \in CallIds :
    /\ i # k
    /\ calls[i].pc = "done" /\ calls[k].pc = "done"
    /\ calls[i].siteUrl # "null" /\ calls[k].siteUrl # "null"
    /\ calls[i].siteHost = calls[k].siteHost
    => /\ calls[i].out = calls[k].out
       /\ calls[i].log = <<>> \/ calls[k].log = <<>>

(* C16 as stated: no call ends by throwing. *)
C16_NeverThrows == \A i \in CallIds : calls[i].pc # "threw"

(* C17 as stated: the URLs a call has fetched are all different. *)
C17_NoUrlFetchedTwice ==
  \A i \in CallIds :
    \A a, b \in DOMAIN calls[i].log : a # b => calls[i].log[a] # calls[i].log[b]

(* C18 as stated: a call that is fetching a URL of a tier after the         *)
(* homepage holds no candidate of an earlier tier.                          *)
C18_ShortCircuit ==
  \A i \in CallIds :
    calls[i].pc \in {"likely", "doc", "fbabout", "social", "wellknown", "discover",
                     "sitemap", "smpage", "search", "searchabout"}
      => \/ calls[i].seen = <<>>

(* No timer of queueSaveSent is armed and no write of the file is in      *)
(* flight.                                                                 *)
Quiet == disk.timers = 0 /\ disk.writes = {}

(* At most one save is pending, and every burst of additions (additions    *)
(* made while a save is pending) starts exactly one write.                 *)
C21_Coalesces ==
  /\ disk.timers <= 1
  /\ disk.started + disk.timers = disk.bursts

(* The write a firing timer starts is given the whole ledger as it is then. *)
C21_WritesWholeLedger ==
  [][disk'.started > disk.started =>
       \E w \in disk'.writes \ disk.writes : w.data = SENT]_vars

(* C21 as stated: at most one save is pending, a burst of additions causes *)
(* exactly one write, and once no save is pending and no write in flight,  *)
(* and no write has failed, the file holds the in-memory ledger.           *)
C21_PersistedEqualsLedger ==
  /\ C21_Coalesces
  /\ Quiet /\ ~disk.failed => sentFile = SENT

(* C25 as stated: a run submitted with no city walks exactly one area     *)
(* (three queries), and a run for a city that is in no table walks the     *)
(* seven generic variants in the documented order.                         *)
C25_AreasOfRun ==
  \A j \in JobIds :
    Registered(j) =>
      /\ run[j].cityList = <<>> =>
           Len(run[j].areaList) = 1 /\ Len(run[j].areaList) * NumPhrasings = 3
      /\ run[j].cityList = <<"Springfield">> =>
           run[j].areaList = <<"Springfield", "North Springfield", "South Springfield",
                               "East Springfield", "West Springfield",
                               "Springfield Downtown", "Springfield Suburbs">>

(* The second half of C25 alone. *)
C25_UnknownCityFanout ==
  \A j \in JobIds :
    Registered(j) /\ run[j].cityList = <<"Springfield">> =>
      run[j].areaList = <<"Springfield", "North Springfield", "South Springfield",
                          "East Springfield", "West Springfield",
                          "Springfield Downtown", "Springfield Suburbs">>

(* What a failed page fetch of job j must leave behind, apart from the log: *)
(* the query is left, and unless the job is stopped the next phrasing (or  *)
(* the first phrasing of the next area) starts with its first page.        *)
LeavesQuery(j) ==
  LET r == run[j]
      n == run'[j]
  IN  /\ ~(n.pc = "fetch" /\ <<n.pass, n.area, n.query>> = <<r.pass, r.area, r.query>>)
      /\ ~Stop(St(j)) /\ (r.query < NumPhrasings \/ r.area < r.areas) =>
           /\ n.pc = "fetch" /\ n.pass = r.pass /\ n.pageNo = 0 /\ ~n.cursor
           /\ <<n.area, n.query>> = IF r.query < NumPhrasings
                                    THEN <<r.area, r.query + 1>>
                                    ELSE <<r.area + 1, 1>>

CompletesNormally ==
  \A j \in JobIds : (run[j].pc = "fetch") ~> (run[j].pc = "done" /\ jobs[j].done)

C23_FailedSendNotFatal ==
  [][\A j \in JobIds : \A t \in pool[j].tasks :
       SendReturn(j, t, FALSE) =>
         /\ run'[j].rows = Append(run[j].rows, [email |-> t.email, status |-> "send_failed"])
         /\ jobs'[j].stats = [jobs[j].stats EXCEPT !.skipped = @ + 1]
         /\ SENT' = SENT /\ saveTimer' = saveTimer /\ disk' = disk
         /\ ~jobs'[j].done /\ run'[j].pc = "pool"
         /\ pool'[j].q = pool[j].q /\ pool'[j].k = pool[j].k
         /\ pool'[j].tasks = (pool[j].tasks \ {t}) \cup {[t EXCEPT !.at = "sleep"]}]_vars

(* Both sends of the first two businesses failed, and the third business   *)
(* of the page, taken by a worker after one of the failures, is being      *)
(* sent to.                                                                *)
C23_Witness ==
  \E j \in JobIds :
    /\ Len(run[j].rows) = 2
    /\ \A i \in 1..2 : run[j].rows[i].status = "send_failed"
    /\ jobs[j].stats.skipped = 2 /\ jobs[j].stats.sent = 0
    /\ \E t \in pool[j].tasks : t.id = 3 /\ t.at = "send"

(* C24 as stated: a worker counts its next business in stats.found only   *)
(* after the throttle sleep that follows its previous one: in a step of a  *)
(* running pool found grows by no more than the number of tasks whose      *)
(* sleep ended in that step, and in the step that starts a pool by no more *)
(* than one business per worker.                                           *)
C24_ThrottleAfterEveryBusiness ==
  [][\A j \in JobIds :
       LET counted == jobs'[j].stats.found - jobs[j].stats.found
           slept   == {t \in pool[j].tasks : t.at = "sleep"} \ pool'[j].tasks
       IN  IF run[j].pc = "pool" THEN counted <= Cardinality(slept)
           ELSE counted <= CONCURRENCY]_vars

(* C26 as stated: in the rendered template every token that names a field *)
(* of the context is replaced by the value of that field, every other      *)
(* token by the empty string, and other text is kept.                      *)
C26_UnknownTokensRenderEmpty ==
  rendering.done =>
    /\ Len(rendering.out) = Len(rendering.tpl)
    /\ \A i \in DOMAIN rendering.tpl :
         LET piece == rendering.tpl[i]
         IN  rendering.out[i] =
               IF piece.kind = "text" THEN piece.s
               ELSE IF piece.s \in Fields THEN rendering.ctx[piece.s]
               ELSE ""

(* The calls of findEmailOnSite that are awaited, over all jobs: each has  *)
(* at most one request of fetchWithTimeout in flight, and has exactly one  *)
(* while it awaits its homepage.                                           *)
Crawling == UNION {{<<j, t.id>> : t \in {u \in pool[j].tasks : u.at = "crawl"}} : j \in JobIds}

(* C27 as stated, with the limit of one pool for N: over all jobs of the   *)
(* process no more than N crawler requests are in flight at any time.      *)
C27_ProcessWideGate == Cardinality(Crawling) <= CONCURRENCY

(* What the code bounds: the requests in flight of each single job.        *)
C27_GatePerPool ==
  \A j \in JobIds : Cardinality({t \in pool[j].tasks : t.at = "crawl"}) <= CONCURRENCY

(* The contract of runPool on a call that has been made: no more than     *)
(* limit tasks are awaited, no task is started twice, the promise is not   *)
(* rejected, and it is fulfilled only when every task has been started     *)
(* once and has finished, by returning or by throwing.                     *)
Awaited == {w \in DOMAIN poolCall.workers : poolCall.workers[w] # 0}
PoolContract ==
  /\ Cardinality(Awaited) <= poolCall.limit
  /\ \A i \in DOMAIN poolCall.started : poolCall.started[i] <= 1
  /\ poolCall.pc # "rejected"
  /\ poolCall.pc = "resolved" =>
       \A i \in DOMAIN poolCall.kinds :
         poolCall.started[i] = 1 /\ poolCall.outcome[i] # "none"

(* C28 as stated: the contract holds for every list of tasks and every     *)
(* limit.                                                                  *)
C28_ContractForAnyLimit ==
  poolCall.pc \in {"running", "resolved", "rejected"} => PoolContract

(* C28, amended: the contract holds for every limit of at least 1; with a  *)
(* limit below 1 there is no worker, no task is ever started and the       *)
(* promise is fulfilled at once.                                           *)
C28_ContractForPositiveLimit ==
  poolCall.pc \in {"running", "resolved", "rejected"} =>
    IF poolCall.limit >= 1 THEN PoolContract
    ELSE /\ poolCall.pc = "resolved"
         /\ \A i \in DOMAIN poolCall.kinds : poolCall.started[i] = 0

(* More tasks than workers, a task that threw and a later task that was    *)
(* run to its end all the same, and the promise fulfilled.                 *)
C28_Witness ==
  /\ poolCall.pc = "resolved"
  /\ poolCall.limit >= 1
  /\ Len(poolCall.kinds) > poolCall.limit
  /\ \E i, k \in DOMAIN poolCall.kinds :
       i < k /\ poolCall.outcome[i] = "thrown" /\ poolCall.kinds[i] = "async"
             /\ poolCall.outcome[k] = "fulfilled"

(* Job j calls fetchBusinessesPage in this step. *)
FetchIssued(j) ==
  /\ run'[j].pc = "fetch"
  /\ \/ run[j].pc # "fetch"
     \/ <<run'[j].pass, run'[j].area, run'[j].query, run'[j].pageNo>>
          # <<run[j].pass, run[j].area, run[j].query, run[j].pageNo>>

(* C29: the first fetch of a query has a null cursor; a later fetch is of  *)
(* the same query as the fetch before it, has the non-null nextCursor that *)
(* fetch returned, and is made when no business of the previous page is    *)
(* queued or in progress any more, the job is not cancelled and the cap is *)
(* not reached; and an empty page is followed by no fetch of its query.    *)
C29_PagesInSequence ==
  [][\A j \in JobIds :
       /\ FetchIssued(j) =>
            IF run'[j].pageNo = 0 THEN ~run'[j].cursor
            ELSE /\ <<run'[j].pass, run'[j].area, run'[j].query>>
                      = <<run[j].pass, run[j].area, run[j].query>>
                 /\ run'[j].pageNo = run[j].pageNo + (IF run[j].pc = "fetch" THEN 1 ELSE 0)
                 /\ run'[j].cursor
                 /\ pool'[j].tasks = {} /\ pool'[j].q = <<>> /\ pool'[j].running = 0
                 /\ ~jobs'[j].cancelled
                 /\ jobs'[j].stats.sent < run'[j].targetCap
       /\ \A next \in BOOLEAN :
            PageEmpty(j, next) =>
              ~(run'[j].pc = "fetch" /\ run'[j].pageNo > 0)]_vars

(* The second page of a query is being fetched, after both businesses of   *)
(* its first page were processed to the end.                               *)
C29_Witness ==
  \E j \in JobIds :
    /\ run[j].pc = "fetch" /\ run[j].pass = "primary"
    /\ run[j].pageNo = 1 /\ run[j].cursor
    /\ jobs[j].stats.found = MaxItems
    /\ jobs[j].stats.withEmail >= 1

(* C30: the fallback pass is entered only from the primary pass of a job  *)
(* that is not cancelled and below its cap, with RESEND_ON_SHORTFALL set;  *)
(* in it, as in the primary pass, a task passes its head and a page is     *)
(* fetched only while the job is not cancelled and below its cap, and      *)
(* sendEmail is invoked only for an address not yet seen in this run.      *)
C30_FallbackKeepsRunChecks ==
  [][\A j \in JobIds :
       /\ run[j].pass = "primary" /\ run'[j].pass = "fallback"
            => /\ ~jobs'[j].cancelled
               /\ jobs'[j].stats.sent < run'[j].targetCap
               /\ RESEND_ON_SHORTFALL
       /\ run'[j].pass = "fallback"
            => /\ TaskStarted(j) \/ FetchBegun(j)
                    => ~jobs[j].cancelled /\ jobs[j].stats.sent < run[j].targetCap
               /\ \A t \in NewlySending(j) :
                    toLowerCase(t.email) \notin run[j].seenInRunEmails]_vars

(* In the fallback pass of a request without ignorePrevious an address of  *)
(* the ledger is being sent to, after the primary pass had skipped a       *)
(* business.                                                               *)
C30_Witness ==
  \E j \in JobIds :
    /\ run[j].pass = "fallback" /\ ~run[j].IGNORE_PREV
    /\ jobs[j].stats.skipped >= 1
    /\ \E t \in Sending(j) : toLowerCase(t.email) \in SENT

(* The pages of sitemap files a call has fetched so far. *)
SitemapPagesFetched(c) ==
  Cardinality({k \in DOMAIN c.log :
                 \E n \in 1..ManyLocs : c.log[k] \in {Locs("a", ManyLocs)[n], Locs("b", ManyLocs)[n]}})

(* C31 as stated: a call fetches at most MAX_PAGES pages listed in sitemap *)
(* files, over all sitemap files, and takes at most 25 URLs of one file.   *)
C31_SitemapPagesCapped ==
  \A i \in CallIds :
    /\ SitemapPagesFetched(calls[i]) <= MAX_PAGES
    /\ calls[i].pc \in {"sitemap", "smpage"} => Len(calls[i].todo) <= 25

(* What the loop keeps: one page more than MAX_PAGES. *)
C31_SitemapPagesCappedPlusOne ==
  \A i \in CallIds :
    /\ SitemapPagesFetched(calls[i]) <= MAX_PAGES + 1
    /\ calls[i].pc \in {"sitemap", "smpage"} => Len(calls[i].todo) <= 25

(* The about pages of profiles found by the search that a call fetched. *)
AboutFetched(c) ==
  Cardinality({k \in DOMAIN c.log :
                 \E n \in DOMAIN SearchSlugs : c.log[k] = toFacebookAbout(SearchSlugs[n])})

(* C32 as stated: the search by name fetches the about page of at most 2   *)
(* of the profiles found, and none after one that yielded an address.      *)
C32_AtMostTwoProfiles ==
  \A i \in CallIds :
    /\ AboutFetched(calls[i]) <= 2
    /\ calls[i].pc = "searchabout" => calls[i].seen = <<>>

(* What the code keeps: the first three profiles. *)
C32_AtMostThreeProfiles ==
  \A i \in CallIds :
    /\ AboutFetched(calls[i]) <= 3
    /\ calls[i].pc = "searchabout" => calls[i].seen = <<>>

(* A lowercase string of the form local@domain.tld. *)
IsEmailCandidate(e) ==
  /\ lower(e) = e
  /\ \E at \in DOMAIN e :
       /\ e[at] = "@" /\ at > 1
       /\ \A k \in DOMAIN e : e[k] = "@" => k = at
       /\ Len(e) >= at + 3
       /\ e[Len(e) - 1] = "." /\ e[Len(e)] \in {"com", "org"}

(* C33 as stated: every value a call returns, other than null, is a        *)
(* lowercase string of the form local@domain.tld.                          *)
C33_ReturnsEmailCandidate ==
  \A i \in CallIds :
    calls[i].pc = "done" /\ calls[i].out.v = "email" => IsEmailCandidate(calls[i].out.s)

(* What uniqLower gives: every returned value is in lowercase. *)
C33_ReturnsLowercase ==
  \A i \in CallIds :
    calls[i].pc = "done" /\ calls[i].out.v = "email" => lower(calls[i].out.s) = calls[i].out.s

(* C34: the heartbeat timer of a job is armed from the start of its       *)
(* background task until the job is done, on the normal and on the failure *)
(* path, and the timer never appends a line to the log of a done job.      *)
C34_HeartbeatOnlyWhileRunning ==
  [][\A j \in JobIds :
       /\ Heartbeat(j) => Registered(j) /\ ~jobs[j].done
       /\ jobs'[j].done => ~jobs'[j]._hb
       /\ run'[j].pc # "none" /\ ~jobs'[j].done => jobs'[j]._hb]_vars

(* A job that sent an email and is done, its timer cleared while the       *)
(* timer was still due to fire.                                            *)
C34_Witness ==
  \E j \in JobIds :
    /\ jobs[j].done /\ ~jobs[j]._hb
    /\ run[j].pc = "done"
    /\ jobs[j].stats.sent >= 1
    /\ quota.hb > 0

RECURSIVE Backoff(_)
Backoff(k) == IF k = 1 THEN 400 ELSE Min(2 * Backoff(k - 1), 4000)

(* The contract of a sendEmail call at any moment: no more transport calls *)
(* than MAX_RETRIES + 1; every call but the last failed with a transient   *)
(* error; it returned exactly when the last call succeeded, and it threw   *)
(* the error of the last call, which was not transient or was the last one *)
(* allowed; the k-th wait was 400 * 2^(k-1) ms, capped at 4000 ms.         *)
MailContract ==
  LET c == mailCall
      n == Len(c.results)
  IN  c.pc \notin {"none", "called"} =>
        /\ n <= c.MAX_RETRIES + 1
        /\ \A k \in 1..(n - 1) : c.results[k] # "ok" /\ transientSmtp(c.results[k])
        /\ c.pc = "returned" <=> (n >= 1 /\ c.results[n] = "ok")
        /\ c.pc = "threw" =>
             /\ c.results[n] # "ok" /\ c.out = c.results[n]
             /\ ~transientSmtp(c.results[n]) \/ n = c.MAX_RETRIES + 1
        /\ c.pc = "sleeping" => transientSmtp(c.results[n]) /\ n <= c.MAX_RETRIES
        /\ Len(c.waits) = (IF c.pc \in {"sending"} THEN n ELSE IF c.pc = "sleeping" THEN n ELSE n - 1)
        /\ \A k \in DOMAIN c.waits : c.waits[k] = Backoff(k) /\ c.waits[k] <= 4000

(* C35: the contract holds throughout a call, and the call ends when each  *)
(* transport call and each sleep returns.                                  *)
C35_BoundedRetries ==
  /\ []MailContract
  /\ <>(mailCall.pc \in {"returned", "threw"})

(* A call that used all its retries, the last wait at the cap of 4000 ms,  *)
(* and threw the last error.                                               *)
C35_Witness ==
  /\ mailCall.pc = "threw"
  /\ Len(mailCall.results) = mailCall.MAX_RETRIES + 1
  /\ mailCall.waits # <<>>
  /\ mailCall.waits[Len(mailCall.waits)] = 4000
  /\ transientSmtp(mailCall.out)

(* The key of a record as the statement has it: the lowercased website,   *)
(* or the lowercased name when the website is empty.                       *)
StatedKey(r) == IF r.website = "" THEN lowerCase(r.name) ELSE lowerCase(r.website)

(* C36: a call that returned has at most max records, no two of them with  *)
(* the same key, and for every key among the records it took from the      *)
(* Business Source the first record of that key, in the order of the       *)
(* source.                                                                 *)
C36_FirstOfEachKey ==
  LET c == placesCall
      taken == Slice(c.source, c.max)
      First(k) == CHOOSE n \in DOMAIN taken :
                    StatedKey(taken[n]) = k /\ \A m \in 1..(n - 1) : StatedKey(taken[m]) # k
  IN  c.pc = "returned" =>
        /\ Len(c.result) <= c.max
        /\ \A a, b \in DOMAIN c.result :
             a < b => /\ StatedKey(c.result[a]) # StatedKey(c.result[b])
                      /\ First(StatedKey(c.result[a])) < First(StatedKey(c.result[b]))
        /\ \A n \in DOMAIN taken : \E a \in DOMAIN c.result :
             StatedKey(c.result[a]) = StatedKey(taken[n])
        /\ \A a \in DOMAIN c.result :
             /\ \E n \in DOMAIN taken : StatedKey(taken[n]) = StatedKey(c.result[a])
             /\ c.result[a] = taken[First(StatedKey(c.result[a]))]

(* The source had more records than max; of the records taken one has no   *)
(* website and one was dropped as a later record of a key that differs     *)
(* from it in case only.                                                   *)
C36_Witness ==
  LET c == placesCall
      taken == Slice(c.source, c.max)
  IN  /\ c.pc = "returned"
      /\ Len(c.source) > c.max
      /\ Len(c.result) < Len(taken)
      /\ \E n \in DOMAIN taken : taken[n].website = ""
      /\ \E n, m \in DOMAIN taken :
           n < m /\ key(taken[n]) = key(taken[m])
                 /\ keyCaseSensitive(taken[n]) # keyCaseSensitive(taken[m])

(* Tasks of job j that passed the start-of-task check and have not yet    *)
(* reached trySend.                                                         *)
PastHead(j) == {t \in pool[j].tasks : t.at = "crawl"}

(* C37: once the cancellation flag of a running job is set, no task        *)
(* passes the start-of-task check; every send attempt started afterwards   *)
(* uses up one of the tasks that had passed it, of which there are at most *)
(* CONCURRENCY, so at most CONCURRENCY further attempts start; and every   *)
(* row added afterwards, hence every row of the result file, is the row of *)
(* a task that was already in flight.                                      *)
C37_CancelBoundsSends ==
  [][\A j \in JobIds :
       /\ Cardinality(PastHead(j)) <= CONCURRENCY
       /\ jobs[j].cancelled /\ ~jobs[j].done
            => /\ ~TaskStarted(j)
               /\ TaskIds([tasks |-> NewlySending(j)])
                    \subseteq TaskIds([tasks |-> PastHead(j)])
               /\ Cardinality(PastHead(j)') + Cardinality(NewlySending(j))
                    <= Cardinality(PastHead(j))
               /\ Len(run'[j].rows) >= Len(run[j].rows)
               /\ \A i \in (DOMAIN run'[j].rows) \ (DOMAIN run[j].rows) :
                    \E t \in Sending(j) : t.email = run'[j].rows[i].email
               /\ HandedToWriter(j) => run'[j].rows = run[j].rows]_vars

(* A stopped job is complete: the first two businesses were in flight     *)
(* when the flag was set and one of them has its row, the third was taken  *)
(* off the queue and never counted.                                        *)
C37_Witness ==
  \E j \in JobIds :
    /\ jobs[j].cancelled /\ jobs[j].done
    /\ pool[j].k = CapItems
    /\ jobs[j].stats.found = CONCURRENCY
    /\ Len(run[j].rows) >= 1
    /\ jobs[j].stats.sent < run[j].targetCap

(* C38: runJob inspects a business only while sent < want and inspected <  *)
(* maxInspected; when it has returned, sent <= want if want >= 0,          *)
(* inspected <= maxInspected, found = inspected = sent + skipped, and      *)
(* doneBecause is goal_reached exactly when sent >= want.                  *)
C38_SequentialCap ==
  /\ [][jobCall'.pc # "none" /\ jobCall.pc # "none"
          /\ jobCall'.inspected # jobCall.inspected
        => /\ jobCall.sent < jobCall.want
           /\ jobCall.inspected < jobCall.maxInspected
           /\ jobCall'.inspected = jobCall.inspected + 1]_vars
  /\ [](jobCall.pc = "returned"
         => /\ jobCall.want >= 0 => jobCall.sent <= jobCall.want
            /\ jobCall.inspected <= jobCall.maxInspected
            /\ jobCall.found = jobCall.inspected
            /\ jobCall.inspected = jobCall.sent + jobCall.skipped
            /\ jobCall.doneBecause \in {"goal_reached", "exhausted_results"}
            /\ jobCall.doneBecause = "goal_reached" <=> jobCall.sent >= jobCall.want)

(* A call that returned at its goal with businesses left in the stream:    *)
(* two sends, one skip, and the business that met the goal check was not   *)
(* inspected.                                                              *)
C38_Witness ==
  /\ jobCall.pc = "returned"
  /\ jobCall.want = MaxGoal /\ jobCall.sent = MaxGoal
  /\ jobCall.skipped >= 1
  /\ Len(streamCall.out) = jobCall.inspected + 1
  /\ jobCall.doneBecause = "goal_reached"

(* The fetches of a leadStream call that asked for query q, in order. *)
FetchesOf(q) == SelectSeq(streamCall.log, LAMBDA f : f.query = q)
NonEmpty(log) == {n \in DOMAIN log : log[n].reply = "items"}
QueryIndex(q) == CHOOSE k \in DOMAIN QueryNames : QueryNames[k] = q

StreamContract ==
  LET c == streamCall
      log == c.log
  IN  c.pc # "none" =>
        /\ \A k \in DOMAIN c.queries :
             Cardinality(NonEmpty(FetchesOf(c.queries[k]))) <= c.maxPagesPerQuery
        /\ Cardinality(NonEmpty(log)) <= c.maxTotalPages
        /\ \A a, b \in DOMAIN log :
             a < b => QueryIndex(log[a].query) <= QueryIndex(log[b].query)
        /\ \A k \in DOMAIN c.queries :
             LET f == FetchesOf(c.queries[k])
             IN  \A n \in DOMAIN f :
                   /\ f[n].cursor = IF n = 1 THEN Null ELSE f[n - 1].next
                   /\ n < Len(f) => f[n].reply = "items" /\ f[n].next # Null
        /\ \A n \in DOMAIN c.out :
             \E m \in NonEmpty(log) : log[m].query = c.out[n]._q

(* C39: leadStream fetches at most maxPagesPerQuery non-empty pages per    *)
(* query and at most maxTotalPages over all queries, asks the queries in   *)
(* the order primary then fallbacks, starts each query with a null cursor  *)
(* and passes on each page's nextCursor, ends a query at a failed or empty *)
(* page and goes on with the next query, and eventually returns.           *)
C39_BoundedStreamTerminates ==
  /\ []StreamContract
  /\ <>(streamCall.pc = "done")

(* A returned call with three queries: a failed fetch ended the primary    *)
(* query, the first fallback used up its per-query budget, and the second  *)
(* fallback was cut short by the total budget.                             *)
C39_Witness ==
  LET c == streamCall
  IN  /\ c.pc = "done"
      /\ Len(c.queries) = MaxQueries
      /\ \E n \in DOMAIN c.log : c.log[n].query = "primary" /\ c.log[n].reply = "failed"
      /\ Cardinality(NonEmpty(FetchesOf("fallback1"))) = c.maxPagesPerQuery
      /\ Cardinality(NonEmpty(FetchesOf("fallback2"))) = 1
      /\ c.maxPagesPerQuery = MaxPerQuery
      /\ Cardinality(NonEmpty(c.log)) = c.maxTotalPages
      /\ c.log[Len(c.log)].next # Null

====
